---- MODULE Spec2Model ----
(***************************************************************************)
(* A model of the WhatsApp-Web bridge of src/main.py: payload extraction   *)
(* and the identity token (extract_message_payload), the dedup store       *)
(* (processed_messages) as used by listen_for_messages and                 *)
(* respond_if_new_message_in_open_chat, reply delivery                     *)
(* (reply_to_current_chat, send_media_to_current_chat) and the login       *)
(* monitor (monitor_whatsapp_status).                                      *)
(*                                                                         *)
(* Python strings and byte strings are sequences of one-character strings. *)
(* None and the empty string / empty bytes are both the empty sequence:    *)
(* every test the code makes on them is a truthiness test.                 *)
(***************************************************************************)
EXTENDS Integers, Sequences, FiniteSets, TLC

VARIABLES
    \* ---- extraction (extract_message_payload called twice on one row)
    row,                \* the DOM row handed to extract_message_payload
    payload1,           \* result of the first extraction
    payload2,           \* result of the second extraction
    xpc,                \* position: "first", "second", "done"
    \* ---- dedup store (listen_for_messages / respond_if_new_message_in_open_chat)
    processed_messages, \* the global set of tokens
    insertion_order,    \* history: the tokens of the store, oldest insert first
    dispatch_count,     \* history: row -> times handed to generate_response_for_payload
    ever_trimmed,       \* history: a trim has happened
    last_obs,           \* history: what the last observation did
    \* ---- delivery (reply_to_current_chat / send_media_to_current_chat)
    USE_WPP_SEND,       \* configuration flag, fixed at start
    message,            \* the text handed to reply_to_current_chat
    send_kind,          \* "text" or "file"
    dpc,                \* position inside the delivery call
    line_idx,           \* idx of the for loop over lines
    key_events,         \* keyboard events issued so far
    wpp_result,         \* what the scripted path did: "untried","ok","not_ready","not_sent","threw"
    dom_result,         \* what the DOM path did: "untried","ok","failed"
    returned,           \* value returned to the caller: "none","true","false","raised"
    \* ---- login monitor (monitor_whatsapp_status)
    is_logged_in,       \* the global flag
    page_markers,       \* the page: which of the four markers are present
    sample,             \* the markers read so far in the running sample
    mpc,                \* position inside the sample
    last_sample,        \* history: the markers read in the last completed sample
    prev_flag,          \* history: is_logged_in before the last completed sample
    \* ---- the scan loop (listen_for_messages) among the other tasks
    spc,                \* position of the scanner task inside listen_for_messages
    cand_i,             \* i of the for loop over the candidates
    unread_count,       \* the value read by unread_rows.count()
    unread,             \* the page: the chats whose row carries an unread badge
    open_chat,          \* the page: the chat that is open, 0 if none
    scheduler_on,       \* configuration: scheduler_loop started and allowed to send
    last_nav,           \* history: the task that last changed the open chat
    attempts,           \* history: candidate iterations started in this pass
    cand_raised,        \* history: the candidates i of this pass that raised
    counted,            \* history: the chats with a badge when the pass counted
    opened,             \* history: chat -> clicks that opened it in this pass
    pass_clean,         \* history: no click on a listed row failed, no badge arrived
    \* ---- one message through its handler (generate_response_for_payload)
    hrow,               \* the last row of the chat being handled
    hpath,              \* "unread" (listen_for_messages) or "active"
    hpc,                \* position inside the handler
    response,           \* what generate_response_for_payload returned
    kernel_calls,       \* history: kernel operation -> what it returned, if called
    file_sent,          \* history: a generated file was delivered into the chat
    text_sent,          \* history: the text handed to reply_to_current_chat
    hflags,             \* history: what the handler did with the row
    \* ---- the per-user kernels (get_kernel_for_user)
    user_kernels,       \* the global dict: user id -> kernel instance
    instances,          \* the heap: number of AgentKernel objects constructed
    requested,          \* history: user id -> instance returned by the first call
    last_call,          \* history: the last call and what it returned
    \* ---- the scripted client library (_ensure_wpp_ready)
    wpc,                \* position inside _ensure_wpp_ready, "idle" between sends
    wpp_caller,         \* the send that called it: "none", "text" or "file"
    window_WPP,         \* the page: window.WPP is defined
    bundle_exists,      \* os.path.exists(local_wpp_path), fixed at start
    init_scripts,       \* history: add_init_script calls that succeeded, 0, 1, 2 or more
    injections,         \* history: evaluate(wpp_script_content) calls, 0, 1, 2 or more
    reloads,            \* history: whatsapp_page.reload() calls, 0, 1, 2 or more
    ensure_result,      \* what the last _ensure_wpp_ready returned: "none","true","false"
    \* ---- the chats of the page and the scanner working on them
    cpc,                \* position of listen_for_messages inside one poll
    chat_open,          \* the chat open on the page, 0 when none is
    badges,             \* the chat rows that carry an unread badge
    inbound,            \* chat -> number of inbound messages received so far
    own_last,           \* chat -> its trailing row was written locally
    arrivals,           \* inbound messages received in all chats
    processed,          \* processed_messages, the tokens of the chat messages
    ci,                 \* i of "for i in range(unread_count)"
    cn,                 \* unread_count of this poll
    cur,                \* the message extracted and being handled
    click_log,          \* history: the clicks safe_click made on this candidate
    send_log,           \* history: the delivery paths tried for this reply
    last_dispatch,      \* history: the last kernel dispatch of this poll
    last_delivery,      \* history: the last reply delivered in this poll
    failed,             \* history: tokens whose dispatch raised or reply was not sent
    skip                \* history: why the scanner last passed over a row

xvars == <<row, payload1, payload2, xpc>>
dvars == <<processed_messages, insertion_order, dispatch_count, ever_trimmed, last_obs>>
rvars == <<USE_WPP_SEND, message, send_kind, dpc, line_idx, key_events, wpp_result,
           dom_result, returned>>
mvars == <<is_logged_in, page_markers, sample, mpc, last_sample, prev_flag>>
svars == <<spc, cand_i, unread_count, unread, open_chat, scheduler_on, last_nav,
           attempts, cand_raised, counted, opened, pass_clean>>
hvars == <<hrow, hpath, hpc, response, kernel_calls, file_sent, text_sent, hflags>>
kvars == <<user_kernels, instances, requested, last_call>>
wvars == <<wpc, wpp_caller, window_WPP, bundle_exists, init_scripts, injections, reloads, ensure_result>>
cvars == <<cpc, chat_open, badges, inbound, own_last, arrivals, processed, ci, cn, cur,
           click_log, send_log, last_dispatch, last_delivery, failed, skip>>
vars == <<xvars, dvars, rvars, mvars, svars, hvars, kvars, wvars, cvars>>

----------------------------------------------------------------------------
(* Strings *)

Range(s) == {s[i] : i \in 1..Len(s)}

Min(a, b) == IF a < b THEN a ELSE b

\* n copies of the character c
Rep(c, n) == [i \in 1..n |-> c]

\* Python s[:n]
Prefix(s, n) == SubSeq(s, 1, Min(n, Len(s)))

\* Python s[-n:] for a list
Suffix(s, n) == SubSeq(s, Len(s) - Min(n, Len(s)) + 1, Len(s))

RECURSIVE LStrip(_)
LStrip(s) == IF s # <<>> /\ Head(s) = " " THEN LStrip(Tail(s)) ELSE s

RECURSIVE RStrip(_)
RStrip(s) ==
    IF s # <<>> /\ s[Len(s)] = " " THEN RStrip(SubSeq(s, 1, Len(s) - 1)) ELSE s

\* Python str.strip() (blanks are the only whitespace of the model's texts)
Strip(s) == RStrip(LStrip(s))

COLON == <<":">>
T_TEXT == <<"t", "e", "x", "t">>
T_AUDIO == <<"a", "u", "d", "i", "o">>
T_IMAGE == <<"i", "m", "a", "g", "e">>
T_DOCUMENT == <<"d", "o", "c", "u", "m", "e", "n", "t">>
NOMEDIA == <<"n", "o", "m", "e", "d", "i", "a">>

----------------------------------------------------------------------------
(* Media decoding *)

NoBytes == <<>>

\* length of the prefix of the media bytes that is hashed
HashWindow == 2048

\* length of the prefix of the text used as fingerprint
TextWindow == 50

\* An element's src / href attribute. scheme "other" stands for a missing
\* attribute or a URL that is neither data: nor blob:. For a data: URL
\* `decodes` says that the header names base64 and the body decodes; for a
\* blob: URL the bytes are those the page would return.
NoElem == [present |-> FALSE, scheme |-> "other", decodes |-> FALSE, bytes |-> NoBytes]

DataUrl(b) == [present |-> TRUE, scheme |-> "data", decodes |-> TRUE, bytes |-> b]
BadDataUrl == [present |-> TRUE, scheme |-> "data", decodes |-> FALSE, bytes |-> NoBytes]
BlobUrl(b) == [present |-> TRUE, scheme |-> "blob", decodes |-> TRUE, bytes |-> b]
DeadBlobUrl == [present |-> TRUE, scheme |-> "blob", decodes |-> FALSE, bytes |-> NoBytes]
OtherUrl == [present |-> TRUE, scheme |-> "other", decodes |-> FALSE, bytes |-> NoBytes]

_data_url_to_bytes(src) == IF src.decodes THEN src.bytes ELSE NoBytes

\* fetch_ok: whether the in-page fetch of this attempt succeeds; a blob whose
\* `decodes` is FALSE has been revoked and no fetch of it succeeds
_blob_url_to_bytes(src, fetch_ok) ==
    IF fetch_ok /\ src.decodes THEN src.bytes ELSE NoBytes

\* the src.startswith("data:") / src.startswith("blob:") chain
DecodeSrc(src, fetch_ok) ==
    IF src.scheme = "data" THEN _data_url_to_bytes(src)
    ELSE IF src.scheme = "blob" THEN _blob_url_to_bytes(src, fetch_ok)
    ELSE NoBytes

\* fetch: [image, audio, doc -> BOOLEAN], the outcome of each in-page fetch
\* of this extraction
_extract_media_from_message(r, fetch) ==
    LET image_detected == r.img.present
        image_bytes == IF image_detected THEN DecodeSrc(r.img, fetch.image) ELSE NoBytes
        audio_src == r.audio.present
        audio_bytes == IF audio_src THEN DecodeSrc(r.audio, fetch.audio) ELSE NoBytes
        audio_detected == audio_src \/ r.audio_marker
        doc_detected == r.doc_marker
        doc_bytes == IF doc_detected /\ r.link.present
                     THEN DecodeSrc(r.link, fetch.doc) ELSE NoBytes
    IN  [image_bytes |-> image_bytes,
         audio_bytes |-> audio_bytes,
         doc_bytes |-> doc_bytes,
         image_detected |-> image_detected,
         audio_detected |-> audio_detected,
         doc_detected |-> doc_detected]

\* hashlib.sha1(b[:2048]).hexdigest()[:10], idealised as collision-free: the
\* digest is the hashed prefix itself, marked
Sha1Hex10(b) == <<"#">> \o Prefix(b, HashWindow)

\* the text found by the selector loop, else the row's inner text
ExtractText(r) ==
    IF Strip(r.sel_text) # <<>> THEN Strip(r.sel_text) ELSE Strip(r.raw_text)

\* the if/elif chain that chooses media_type
MediaTypeImageFirst(media) ==
    IF media.image_bytes # NoBytes THEN T_IMAGE
    ELSE IF media.audio_bytes # NoBytes THEN T_AUDIO
    ELSE IF media.doc_bytes # NoBytes THEN T_DOCUMENT
    ELSE IF media.image_detected THEN T_IMAGE
    ELSE IF media.audio_detected THEN T_AUDIO
    ELSE IF media.doc_detected THEN T_DOCUMENT
    ELSE T_TEXT

MediaType(media) ==
    IF media.audio_bytes # NoBytes THEN T_AUDIO
    ELSE IF media.image_bytes # NoBytes THEN T_IMAGE
    ELSE IF media.doc_bytes # NoBytes THEN T_DOCUMENT
    ELSE IF media.audio_detected THEN T_AUDIO
    ELSE IF media.image_detected THEN T_IMAGE
    ELSE IF media.doc_detected THEN T_DOCUMENT
    ELSE T_TEXT

\* seed = data_id or pre_plain or aria_label
TokenSeedPreFirst(r) ==
    IF r.pre_plain # <<>> THEN r.pre_plain
    ELSE IF r.data_id # <<>> THEN r.data_id
    ELSE r.aria_label

TokenSeed(r) ==
    IF r.data_id # <<>> THEN r.data_id
    ELSE IF r.pre_plain # <<>> THEN r.pre_plain
    ELSE r.aria_label

TokenSuffixNoSentinel(media_type, msg_text, media) ==
    IF media_type = T_TEXT THEN Prefix(msg_text, TextWindow)
    ELSE IF media.image_bytes # NoBytes THEN Sha1Hex10(media.image_bytes)
    ELSE IF media.audio_bytes # NoBytes THEN Sha1Hex10(media.audio_bytes)
    ELSE IF media.doc_bytes # NoBytes THEN Sha1Hex10(media.doc_bytes)
    ELSE Prefix(msg_text, TextWindow)

\* the if/elif chain that chooses suffix
TokenSuffix(media_type, msg_text, media) ==
    IF media_type = T_TEXT THEN Prefix(msg_text, TextWindow)
    ELSE IF media.image_bytes # NoBytes THEN Sha1Hex10(media.image_bytes)
    ELSE IF media.audio_bytes # NoBytes THEN Sha1Hex10(media.audio_bytes)
    ELSE IF media.doc_bytes # NoBytes THEN Sha1Hex10(media.doc_bytes)
    ELSE NOMEDIA

MsgId(seed, media_type, suffix) == seed \o COLON \o media_type \o COLON \o suffix

extract_message_payload(r, fetch) ==
    LET msg_text == ExtractText(r)
        media == _extract_media_from_message(r, fetch)
        media_type == MediaType(media)
        suffix == TokenSuffix(media_type, msg_text, media)
    IN  [text |-> msg_text,
         type |-> media_type,
         msg_id |-> MsgId(TokenSeed(r), media_type, suffix),
         image_bytes |-> media.image_bytes,
         audio_bytes |-> media.audio_bytes,
         doc_bytes |-> media.doc_bytes,
         media_detected |-> media.image_detected \/ media.audio_detected
                            \/ media.doc_detected]

----------------------------------------------------------------------------
(* Rows *)

S_HI == <<"H", "i">>
S_ID == <<"m", "1">>
S_PRE == <<"[", "t", "]", " ", "B", "o", "b", ":", " ">>
S_LABEL == <<"B", "o", "b">>
B_IMG == <<"x", "y">>
B_AUD == <<"y">>
B_DOC == <<"z">>
\* two byte strings that differ only after the hashed prefix
B_LONG1 == Rep("x", HashWindow) \o <<"1">>
B_LONG2 == Rep("x", HashWindow) \o <<"2">>
\* two texts that differ only after the fingerprint prefix
S_LONG1 == Rep("a", TextWindow) \o <<"b">>
S_LONG2 == Rep("a", TextWindow) \o <<"c">>

TextRow(id, pre, label, txt) ==
    [data_id |-> id, pre_plain |-> pre, aria_label |-> label,
     sel_text |-> txt, raw_text |-> txt,
     img |-> NoElem, audio |-> NoElem, audio_marker |-> FALSE,
     doc_marker |-> FALSE, link |-> NoElem]

\* the (data-id, data-pre-plain-text, aria-label) triples of the model's rows
SeedTriples ==
    { <<S_ID, S_PRE, S_LABEL>>, <<(<<>>), S_PRE, S_LABEL>>, <<(<<>>), (<<>>), S_LABEL>> }

\* the row shapes extract_message_payload is applied to
RowShapes ==
    { [data_id |-> sd[1], pre_plain |-> sd[2], aria_label |-> sd[3],
       sel_text |-> tx[1], raw_text |-> tx[2],
       img |-> im, audio |-> au, audio_marker |-> am,
       doc_marker |-> dm, link |-> lk] :
        sd \in SeedTriples,
        tx \in {<<(<<>>), (<<>>)>>, <<(<<" ">>), S_HI>>, <<S_HI, S_HI>>},
        im \in {NoElem, DataUrl(B_IMG), BlobUrl(B_IMG), OtherUrl},
        au \in {NoElem, BadDataUrl, BlobUrl(B_AUD)},
        am \in BOOLEAN,
        dm \in BOOLEAN,
        lk \in {NoElem, DataUrl(B_DOC), BlobUrl(B_LONG1)} }

Fetches == [image : BOOLEAN, audio : BOOLEAN, doc : BOOLEAN]
AllFetch(b) == [image |-> b, audio |-> b, doc |-> b]

NoPayload ==
    [text |-> <<>>, type |-> <<>>, msg_id |-> <<>>, image_bytes |-> NoBytes,
     audio_bytes |-> NoBytes, doc_bytes |-> NoBytes, media_detected |-> FALSE]

----------------------------------------------------------------------------
(* Values of the parts a specification does not exercise *)

IdleRow == TextRow(S_ID, S_PRE, S_LABEL, S_HI)

XIdle == row = IdleRow /\ payload1 = NoPayload /\ payload2 = NoPayload /\ xpc = "idle"

NoObs == [row |-> 0, path |-> "none", in_store |-> FALSE,
          dispatched |-> FALSE, replied |-> FALSE, raised |-> FALSE, trimmed |-> FALSE]

RIdle ==
    /\ USE_WPP_SEND = TRUE
    /\ message = <<>>
    /\ send_kind = "text"
    /\ dpc = "idle"
    /\ line_idx = 0
    /\ key_events = <<>>
    /\ wpp_result = "untried"
    /\ dom_result = "untried"
    /\ returned = "none"

NoSample == [qr |-> FALSE, chat_list |-> FALSE, chat_grid |-> FALSE, chat_textbox |-> FALSE]

\* no sample has completed yet, or the last one ended in a query error
NoCompleted == [ok |-> FALSE, markers |-> NoSample]

MIdle ==
    /\ is_logged_in = FALSE
    /\ page_markers = NoSample
    /\ sample = NoSample
    /\ mpc = "idle"
    /\ last_sample = NoCompleted
    /\ prev_flag = FALSE

\* the chats of the chat list
NumChats == 2
Chats == 1..NumChats

SIdle ==
    /\ spc = "idle"
    /\ cand_i = 0
    /\ unread_count = 0
    /\ unread = {}
    /\ open_chat = 0
    /\ scheduler_on = FALSE
    /\ last_nav = "none"
    /\ attempts = 0
    /\ cand_raised = {}
    /\ counted = {}
    /\ opened = [c \in Chats |-> 0]
    /\ pass_clean = TRUE

\* a value returned by a kernel operation or by generate_response_for_payload:
\* None, or a string / byte string
None == [null |-> TRUE, val |-> <<>>]
Val(s) == [null |-> FALSE, val |-> s]

\* the operations of the kernel collaborator
KernelOps == {"run", "run_with_vision", "transcribe_audio", "extract_document_text",
              "generate_image", "generate_speech"}

\* no kernel operation has been called
NoCalls == [op \in KernelOps |-> [called |-> FALSE, result |-> None]]

NoFlags == [empty |-> FALSE, duplicate |-> FALSE, dispatched |-> FALSE,
            raised |-> FALSE, replied |-> FALSE]

HIdle ==
    /\ hrow = 0
    /\ hpath = "none"
    /\ hpc = "idle"
    /\ response = None
    /\ kernel_calls = NoCalls
    /\ file_sent = FALSE
    /\ text_sent = <<>>
    /\ hflags = NoFlags

\* the user ids of tests/test_per_user_kernel.py
UserIds == {"+1234567890", "+0987654321", "+1122334455"}

NoUser == "none"

NoCall == [user |-> NoUser, result |-> 0, created |-> FALSE]

KIdle ==
    /\ user_kernels = <<>>
    /\ instances = 0
    /\ requested = <<>>
    /\ last_call = NoCall

WIdle ==
    /\ wpc = "idle"
    /\ wpp_caller = "none"
    /\ window_WPP = FALSE
    /\ bundle_exists = FALSE
    /\ init_scripts = 0
    /\ injections = 0
    /\ reloads = 0
    /\ ensure_result = "none"

NoMsg == [chat |-> 0, n |-> 0, path |-> "none", sender |-> None]

NoDispatch == [chat |-> 0, n |-> 0, path |-> "none", kernel |-> None]

NoDelivery == [to |-> 0, from |-> 0]

NoSkip == [why |-> "none", path |-> "none"]

CIdle ==
    /\ cpc = "top"
    /\ chat_open = 0
    /\ badges = {}
    /\ inbound = [c \in Chats |-> 0]
    /\ own_last = [c \in Chats |-> FALSE]
    /\ arrivals = 0
    /\ processed = {}
    /\ ci = 0
    /\ cn = 0
    /\ cur = NoMsg
    /\ click_log = <<>>
    /\ send_log = <<>>
    /\ last_dispatch = NoDispatch
    /\ last_delivery = NoDelivery
    /\ failed = {}
    /\ skip = NoSkip

----------------------------------------------------------------------------
(* extract_message_payload applied twice to one unchanged row *)

XInit ==
    /\ row \in RowShapes
    /\ payload1 = NoPayload
    /\ payload2 = NoPayload
    /\ xpc = "first"

ExtractFirst ==
    /\ xpc = "first"
    /\ \E fetch \in Fetches : payload1' = extract_message_payload(row, fetch)
    /\ xpc' = "second"
    /\ UNCHANGED <<row, payload2>>

ExtractSecond ==
    /\ xpc = "second"
    /\ \E fetch \in Fetches : payload2' = extract_message_payload(row, fetch)
    /\ xpc' = "done"
    /\ UNCHANGED <<row, payload1>>

----------------------------------------------------------------------------
(* The dedup store: observations of message rows on the two paths *)

\* len(processed_messages) > 1000, scaled to the model
Capacity == 2

\* list(processed_messages)[-500:], half the capacity
KeepCount == Capacity \div 2

S_ID2 == <<"m", "2">>
S_ID3 == <<"m", "3">>

\* the inbound rows that can be the last message of a chat
DedupRows ==
    << TextRow(S_ID, S_PRE, S_LABEL, S_HI),
       TextRow(<<>>, S_PRE, S_LABEL, S_LONG1),
       TextRow(<<>>, S_PRE, S_LABEL, S_LONG2),
       [TextRow(S_ID2, S_PRE, S_LABEL, <<>>) EXCEPT !.audio_marker = TRUE,
                                                    !.img = DeadBlobUrl],
       TextRow(S_ID3, S_PRE, S_LABEL, S_HI) >>

RowIds == 1..Len(DedupRows)

\* extract_message_payload of each row; no row of DedupRows has a live blob,
\* so the outcome of the in-page fetches does not matter
RowPayload == [r \in RowIds |-> extract_message_payload(DedupRows[r], AllFetch(TRUE))]

\* what generate_response_for_payload and the delivery after it can do:
\* raise, return nothing to send, return a text that is handed to
\* reply_to_current_chat (whose result the caller ignores)
Outcomes == {"raise", "empty", "reply"}

\* the orders in which list(s) can enumerate the set s: a Python set
\* iterates in hash-table order, which for strings varies with the hash seed
RECURSIVE ListsOfSet(_)
ListsOfSet(s) ==
    IF s = {} THEN {<<>>}
    ELSE UNION {{<<t>> \o l : l \in ListsOfSet(s \ {t})} : t \in s}

\* the dispatch counters count 0, 1 and "2 or more"
Bump(c) == IF c = 0 THEN 1 ELSE 2

\* restriction of the insertion history to the surviving tokens
RECURSIVE Restrict(_, _)
Restrict(seq, keep) ==
    IF seq = <<>> THEN <<>>
    ELSE IF Head(seq) \in keep THEN <<Head(seq)>> \o Restrict(Tail(seq), keep)
    ELSE Restrict(Tail(seq), keep)

DInit ==
    /\ processed_messages = {}
    /\ insertion_order = <<>>
    /\ dispatch_count = [r \in RowIds |-> 0]
    /\ ever_trimmed = FALSE
    /\ last_obs = NoObs

\* if not msg_text and not media_detected
IsEmptyNoText(p) == p.text = <<>>

IsEmptyPayload(p) == p.text = <<>> /\ ~p.media_detected

\* if msg_id not in processed_messages
IsNewAlways(msg_id, store) == TRUE

IsNew(msg_id, store) == msg_id \notin store

\* if len(processed_messages) > 1000
NeedsTrim(store) == Cardinality(store) > Capacity

\* set(list(processed_messages)[-500:]) for the enumeration lst
Trimmed(lst) == Range(Suffix(lst, KeepCount))

\* listen_for_messages, the body of one candidate from extract_message_payload
\* to the trim, for the last row r of the opened chat
ObserveUnread(r) ==
    \E out \in Outcomes :
        LET p == RowPayload[r]
            new == ~IsEmptyPayload(p) /\ IsNew(p.msg_id, processed_messages)
            store1 == IF new THEN processed_messages \cup {p.msg_id}
                      ELSE processed_messages
            order1 == IF new THEN Append(insertion_order, p.msg_id)
                      ELSE insertion_order
            trim == new /\ out # "raise" /\ NeedsTrim(store1)
        IN  /\ IF trim
               THEN \E lst \in ListsOfSet(store1) :
                        /\ processed_messages' = Trimmed(lst)
                        /\ insertion_order' = Restrict(order1, Trimmed(lst))
               ELSE /\ processed_messages' = store1
                    /\ insertion_order' = order1
            /\ dispatch_count' =
                   IF new THEN [dispatch_count EXCEPT ![r] = Bump(@)]
                   ELSE dispatch_count
            /\ ever_trimmed' = (ever_trimmed \/ trim)
            /\ last_obs' = [row |-> r, path |-> "unread",
                            in_store |-> p.msg_id \in processed_messages,
                            dispatched |-> new,
                            replied |-> new /\ out = "reply",
                            raised |-> new /\ out = "raise",
                            trimmed |-> trim]

\* respond_if_new_message_in_open_chat from extract_message_payload on, for
\* the last row r of the open chat
ObserveActive(r) ==
    \E out \in Outcomes :
        LET p == RowPayload[r]
            new == ~IsEmptyPayload(p) /\ IsNew(p.msg_id, processed_messages)
        IN  /\ processed_messages' =
                   IF new THEN processed_messages \cup {p.msg_id}
                   ELSE processed_messages
            /\ insertion_order' =
                   IF new THEN Append(insertion_order, p.msg_id)
                   ELSE insertion_order
            /\ dispatch_count' =
                   IF new THEN [dispatch_count EXCEPT ![r] = Bump(@)]
                   ELSE dispatch_count
            /\ UNCHANGED ever_trimmed
            /\ last_obs' = [row |-> r, path |-> "active",
                            in_store |-> p.msg_id \in processed_messages,
                            dispatched |-> new,
                            replied |-> new /\ out = "reply",
                            raised |-> new /\ out = "raise",
                            trimmed |-> FALSE]

Init == XIdle /\ DInit /\ RIdle /\ MIdle /\ SIdle /\ HIdle /\ KIdle /\ WIdle /\ CIdle

Next ==
    \/ \E r \in RowIds : ObserveUnread(r) /\ UNCHANGED <<xvars, rvars, mvars, svars, hvars, kvars, wvars, cvars>>
    \/ \E r \in RowIds : ObserveActive(r) /\ UNCHANGED <<xvars, rvars, mvars, svars, hvars, kvars, wvars, cvars>>

Spec == Init /\ [][Next]_vars

InitExtract == XInit /\ DInit /\ RIdle /\ MIdle /\ SIdle /\ HIdle /\ KIdle /\ WIdle /\ CIdle

NextExtract ==
    \/ ExtractFirst /\ UNCHANGED <<dvars, rvars, mvars, svars, hvars, kvars, wvars, cvars>>
    \/ ExtractSecond /\ UNCHANGED <<dvars, rvars, mvars, svars, hvars, kvars, wvars, cvars>>

SpecExtract == InitExtract /\ [][NextExtract]_vars

----------------------------------------------------------------------------
(* Delivery: reply_to_current_chat and send_media_to_current_chat *)

\* longest message handed to reply_to_current_chat
MaxMsgLen == 5

NL == "\n"

Messages == UNION {[1..n -> {"a", NL}] : n \in 0..MaxMsgLen}

\* Python message.split("\n")
RECURSIVE Split(_)
Split(msg) ==
    IF \A i \in 1..Len(msg) : msg[i] # NL THEN <<msg>>
    ELSE LET i == CHOOSE j \in 1..Len(msg) :
                      msg[j] = NL /\ \A k \in 1..(j - 1) : msg[k] # NL
         IN  <<SubSeq(msg, 1, i - 1)>> \o Split(SubSeq(msg, i + 1, Len(msg)))

TypeEvent(line) == [kind |-> "type", text |-> line, key |-> ""]
PressEvent(k) == [kind |-> "press", text |-> <<>>, key |-> k]

\* the key pressed after typing line idx of n lines ("" for none)
KeyAfterLineAlways(idx, n) == "Shift+Enter"

KeyAfterLine(idx, n) == IF idx < n - 1 THEN "Shift+Enter" ELSE ""

\* the key that submits the message
SubmitKey == "Enter"

RInit ==
    /\ USE_WPP_SEND \in BOOLEAN
    /\ message \in Messages
    /\ send_kind \in {"text", "file"}
    /\ dpc = "start"
    /\ line_idx = 0
    /\ key_events = <<>>
    /\ wpp_result = "untried"
    /\ dom_result = "untried"
    /\ returned = "none"

\* the function returns v
Return(v) == returned' = v /\ dpc' = "done"

\* the DOM path fails: a selector finds nothing (return False) or an awaited
\* page operation raises, which the function's except turns into False
DomFails ==
    /\ dom_result' = "failed"
    /\ Return("false")

\* _send_text_via_wpp as called by reply_to_current_chat
SendTextViaWpp ==
    /\ dpc = "start" /\ send_kind = "text" /\ USE_WPP_SEND
    /\ \E out \in {"ok", "not_ready", "not_sent", "eval_raised"} :
          /\ wpp_result' = out
          /\ IF out = "ok" THEN Return("true") ELSE dpc' = "dom" /\ UNCHANGED returned
    /\ UNCHANGED <<USE_WPP_SEND, message, send_kind, line_idx, key_events, dom_result>>

\* _send_media_via_wpp as called by send_media_to_current_chat: the file is
\* missing, the library is not ready, reading the file raises (outside the
\* function's try, so it reaches the caller's except), the page reports
\* success or failure, or the evaluate raises (caught in the function)
SendMediaViaWpp ==
    /\ dpc = "start" /\ send_kind = "file" /\ USE_WPP_SEND
    /\ \E out \in {"ok", "no_file", "not_ready", "read_raised", "not_sent",
                    "eval_raised"} :
          /\ wpp_result' = out
          /\ IF out = "ok" THEN Return("true")
             ELSE IF out = "read_raised" THEN Return("false")
             ELSE dpc' = "dom" /\ UNCHANGED returned
    /\ UNCHANGED <<USE_WPP_SEND, message, send_kind, line_idx, key_events, dom_result>>

\* if USE_WPP_SEND is off the scripted path is skipped
SkipWpp ==
    /\ dpc = "start" /\ ~USE_WPP_SEND
    /\ dpc' = "dom"
    /\ UNCHANGED <<USE_WPP_SEND, message, send_kind, line_idx, key_events,
                   wpp_result, dom_result, returned>>

\* reply_to_current_chat: find the input box and click it
FindInputBox ==
    /\ dpc = "dom" /\ send_kind = "text"
    /\ \/ /\ dpc' = "type"
          /\ dom_result' = "typing"
          /\ line_idx' = 0
          /\ UNCHANGED returned
       \/ DomFails /\ UNCHANGED line_idx
    /\ UNCHANGED <<USE_WPP_SEND, message, send_kind, key_events, wpp_result>>

\* keyboard.type(line) for the line at line_idx
TypeLine ==
    /\ dpc = "type"
    /\ \/ /\ key_events' = Append(key_events, TypeEvent(Split(message)[line_idx + 1]))
          /\ dpc' = "after_line"
          /\ UNCHANGED <<dom_result, returned>>
       \/ DomFails /\ UNCHANGED key_events
    /\ UNCHANGED <<USE_WPP_SEND, message, send_kind, line_idx, wpp_result>>

\* if idx < len(lines) - 1: keyboard.press("Shift+Enter"), then the next line
\* or the end of the loop
AfterLine ==
    /\ dpc = "after_line"
    /\ LET n == Len(Split(message))
           k == KeyAfterLine(line_idx, n)
       IN  \/ /\ key_events' = IF k = "" THEN key_events
                                ELSE Append(key_events, PressEvent(k))
              /\ line_idx' = line_idx + 1
              /\ dpc' = IF line_idx + 1 < n THEN "type" ELSE "submit"
              /\ UNCHANGED <<dom_result, returned>>
           \/ /\ k # ""
              /\ DomFails
              /\ UNCHANGED <<key_events, line_idx>>
    /\ UNCHANGED <<USE_WPP_SEND, message, send_kind, wpp_result>>

\* keyboard.press("Enter"), return True
Submit ==
    /\ dpc = "submit"
    /\ \/ /\ key_events' = Append(key_events, PressEvent(SubmitKey))
          /\ dom_result' = "ok"
          /\ Return("true")
       \/ DomFails /\ UNCHANGED key_events
    /\ UNCHANGED <<USE_WPP_SEND, message, send_kind, line_idx, wpp_result>>

\* send_media_to_current_chat, the DOM path: attachment button, file input,
\* optional caption, send button
AttachFile ==
    /\ dpc = "dom" /\ send_kind = "file"
    /\ \/ dom_result' = "ok" /\ Return("true")
       \/ DomFails
    /\ UNCHANGED <<USE_WPP_SEND, message, send_kind, line_idx, key_events, wpp_result>>

InitReply == XIdle /\ DInit /\ RInit /\ MIdle /\ SIdle /\ HIdle /\ KIdle /\ WIdle /\ CIdle

NextReply ==
    \/ SendTextViaWpp /\ UNCHANGED <<xvars, dvars, mvars, svars, hvars, kvars, wvars, cvars>>
    \/ SendMediaViaWpp /\ UNCHANGED <<xvars, dvars, mvars, svars, hvars, kvars, wvars, cvars>>
    \/ SkipWpp /\ UNCHANGED <<xvars, dvars, mvars, svars, hvars, kvars, wvars, cvars>>
    \/ FindInputBox /\ UNCHANGED <<xvars, dvars, mvars, svars, hvars, kvars, wvars, cvars>>
    \/ TypeLine /\ UNCHANGED <<xvars, dvars, mvars, svars, hvars, kvars, wvars, cvars>>
    \/ AfterLine /\ UNCHANGED <<xvars, dvars, mvars, svars, hvars, kvars, wvars, cvars>>
    \/ Submit /\ UNCHANGED <<xvars, dvars, mvars, svars, hvars, kvars, wvars, cvars>>
    \/ AttachFile /\ UNCHANGED <<xvars, dvars, mvars, svars, hvars, kvars, wvars, cvars>>

SpecReply == InitReply /\ [][NextReply]_vars

----------------------------------------------------------------------------
(* The login monitor: monitor_whatsapp_status *)

Markers == [qr : BOOLEAN, chat_list : BOOLEAN, chat_grid : BOOLEAN, chat_textbox : BOOLEAN]

MInit ==
    /\ is_logged_in = FALSE
    /\ page_markers \in Markers
    /\ sample = NoSample
    /\ mpc = "qr"
    /\ last_sample = NoCompleted
    /\ prev_flag = FALSE

\* the page changes under the monitor (QR shown, scanned, chats rendered)
PageChange ==
    /\ page_markers' \in Markers \ {page_markers}
    /\ UNCHANGED <<is_logged_in, sample, mpc, last_sample, prev_flag>>

\* a query_selector raises: the except logs it and the loop goes to sleep
QueryError ==
    /\ mpc' = "sleep"
    /\ last_sample' = NoCompleted
    /\ UNCHANGED <<is_logged_in, page_markers, sample, prev_flag>>

\* one awaited query_selector of the sample at position pos, read into field
Query(pos, next) ==
    /\ mpc = pos
    /\ \/ /\ sample' = [sample EXCEPT ![pos] = page_markers[pos]]
          /\ mpc' = next
          /\ UNCHANGED <<is_logged_in, page_markers, last_sample, prev_flag>>
       \/ QueryError

QueryQr == Query("qr", "chat_list")
QueryChatList == Query("chat_list", "chat_grid")
QueryChatGrid == Query("chat_grid", "chat_textbox")
QueryChatTextbox == Query("chat_textbox", "classify")

\* logged_in = (chat_list or chat_grid or chat_textbox) and not qr_canvas
LoggedInIgnoringQr(m) == m.chat_list \/ m.chat_grid \/ m.chat_textbox

LoggedIn(m) == (m.chat_list \/ m.chat_grid \/ m.chat_textbox) /\ ~m.qr

\* the if/elif chain that updates is_logged_in
Classify ==
    /\ mpc = "classify"
    /\ is_logged_in' =
          IF LoggedIn(sample) /\ ~is_logged_in THEN TRUE
          ELSE IF ~LoggedIn(sample) /\ is_logged_in THEN FALSE
          ELSE is_logged_in
    /\ last_sample' = [ok |-> TRUE, markers |-> sample]
    /\ prev_flag' = is_logged_in
    /\ mpc' = "sleep"
    /\ UNCHANGED <<page_markers, sample>>

\* await asyncio.sleep(5), then the next sample
Sleep ==
    /\ mpc = "sleep"
    /\ mpc' = "qr"
    /\ UNCHANGED <<is_logged_in, page_markers, sample, last_sample, prev_flag>>

InitMonitor == XIdle /\ DInit /\ RIdle /\ MInit /\ SIdle /\ HIdle /\ KIdle /\ WIdle /\ CIdle

NextMonitor ==
    \/ PageChange /\ UNCHANGED <<xvars, dvars, rvars, svars, hvars, kvars, wvars, cvars>>
    \/ QueryQr /\ UNCHANGED <<xvars, dvars, rvars, svars, hvars, kvars, wvars, cvars>>
    \/ QueryChatList /\ UNCHANGED <<xvars, dvars, rvars, svars, hvars, kvars, wvars, cvars>>
    \/ QueryChatGrid /\ UNCHANGED <<xvars, dvars, rvars, svars, hvars, kvars, wvars, cvars>>
    \/ QueryChatTextbox /\ UNCHANGED <<xvars, dvars, rvars, svars, hvars, kvars, wvars, cvars>>
    \/ Classify /\ UNCHANGED <<xvars, dvars, rvars, svars, hvars, kvars, wvars, cvars>>
    \/ Sleep /\ UNCHANGED <<xvars, dvars, rvars, svars, hvars, kvars, wvars, cvars>>

SpecMonitor == InitMonitor /\ [][NextMonitor]_vars

----------------------------------------------------------------------------
(* The scan loop of listen_for_messages among the other tasks of           *)
(* start_whatsapp_bridge. All tasks run on one asyncio event loop: a task   *)
(* runs from one await to the next, so each action below is the code        *)
(* between two awaits of one task.                                          *)

\* the rows matched by the unread_rows locator, in chat-list order; the
\* locator is resolved against the live page each time it is used
RECURSIVE SortedSeq(_)
SortedSeq(s) ==
    IF s = {} THEN <<>>
    ELSE LET m == CHOOSE x \in s : \A y \in s : x <= y
         IN  <<m>> \o SortedSeq(s \ {m})

UnreadRows == SortedSeq(unread)

\* chat_rows.nth(0)
FirstRow == CHOOSE c \in Chats : \A d \in Chats : c <= d

\* the chat of USER_PHONE, opened by the send?phone= URL
UserPhoneChat == CHOOSE c \in Chats : \A d \in Chats : c >= d

NoneOpened == [c \in Chats |-> 0]

SInit ==
    /\ spc = "top"
    /\ cand_i = 0
    /\ unread_count = 0
    /\ unread \in SUBSET Chats
    /\ open_chat = 0
    /\ scheduler_on \in BOOLEAN
    /\ last_nav = "none"
    /\ attempts = 0
    /\ cand_raised = {}
    /\ counted = {}
    /\ opened = NoneOpened
    /\ pass_clean = TRUE

\* the positions of the for loop over the candidates
InPass == spc \in {"click", "wait", "read", "kernel", "reply", "cand_except"}

\* kernel.run(...) and the other kernel operations are plain synchronous
\* calls made from a coroutine: until the call returns the event loop runs
\* no other task
EventLoopFree == spc \notin {"kernel", "a_kernel"}

\* if not is_logged_in: await asyncio.sleep(3); continue
GateOpen(flag) == TRUE

Gate(flag) == flag

\* where a raised exception continues: the except of the candidate's try for
\* the body of the for loop, the except of the loop's try for the rest
OnRaiseNoInner(level) == "outer_except"

OnRaiseNoOuter(level) == IF level = "candidate" THEN "cand_except" ELSE "escaped"

OnRaise(level) == IF level = "candidate" THEN "cand_except" ELSE "outer_except"

\* the end of one candidate's iteration: the next i, or the sleep after the loop
Advance ==
    IF cand_i + 1 < unread_count
    THEN /\ spc' = "click"
         /\ cand_i' = cand_i + 1
         /\ attempts' = attempts + 1
    ELSE /\ spc' = "sleep2"
         /\ UNCHANGED <<cand_i, attempts>>

\* an exception raised inside the candidate's try
RaiseInCandidate ==
    /\ spc' = OnRaise("candidate")
    /\ cand_raised' = cand_raised \cup {cand_i}
    /\ UNCHANGED <<cand_i, attempts>>

\* monitor_whatsapp_status completes a sample and sets the flag from it
MonitorSample ==
    /\ EventLoopFree
    /\ \E m \in Markers : is_logged_in' = LoggedIn(m)
    /\ UNCHANGED <<page_markers, sample, mpc, last_sample, prev_flag>>
    /\ UNCHANGED svars

\* scheduler_loop: send_whatsapp_message navigates the page to USER_PHONE's chat
SchedulerSend ==
    /\ scheduler_on
    /\ EventLoopFree
    /\ open_chat' = UserPhoneChat
    /\ unread' = unread \ {UserPhoneChat}
    /\ last_nav' = "scheduler"
    /\ pass_clean' = (pass_clean /\ ~InPass)
    /\ UNCHANGED <<spc, cand_i, unread_count, scheduler_on, attempts, cand_raised,
                   counted, opened>>
    /\ UNCHANGED mvars

\* a message arrives in a chat that is not open: its row gets a badge
Arrive(c) ==
    /\ c # open_chat
    /\ c \notin unread
    /\ unread' = unread \cup {c}
    /\ pass_clean' = (pass_clean /\ ~InPass)
    /\ UNCHANGED <<spc, cand_i, unread_count, open_chat, scheduler_on, last_nav,
                   attempts, cand_raised, counted, opened>>
    /\ UNCHANGED mvars

\* while True: if not is_logged_in: sleep 3 and continue
Top ==
    /\ spc = "top"
    /\ spc' = IF Gate(is_logged_in) THEN "header" ELSE "top"
    /\ UNCHANGED <<cand_i, unread_count, unread, open_chat, scheduler_on, last_nav,
                   attempts, cand_raised, counted, opened, pass_clean>>
    /\ UNCHANGED mvars

\* the header query; with no chat open, safe_click on the first chat row
Header ==
    /\ spc = "header"
    /\ \/ /\ spc' = "active"
          /\ \/ UNCHANGED <<open_chat, unread, last_nav>>
             \/ /\ open_chat = 0
                /\ open_chat' = FirstRow
                /\ unread' = unread \ {FirstRow}
                /\ last_nav' = "scanner"
       \/ /\ spc' = OnRaise("poll")
          /\ UNCHANGED <<open_chat, unread, last_nav>>
    /\ UNCHANGED <<cand_i, unread_count, scheduler_on, attempts, cand_raised, counted,
                   opened, pass_clean>>
    /\ UNCHANGED mvars

\* respond_if_new_message_in_open_chat up to its dispatch; its own try
\* catches everything raised inside it
Active ==
    /\ spc = "active"
    /\ \/ spc' = "count"
       \/ open_chat # 0 /\ spc' = "a_kernel"
    /\ UNCHANGED <<cand_i, unread_count, unread, open_chat, scheduler_on, last_nav,
                   attempts, cand_raised, counted, opened, pass_clean>>
    /\ UNCHANGED mvars

\* the kernel call of the active path returns or raises
ActiveKernelReturn ==
    /\ spc = "a_kernel"
    /\ spc' \in {"a_reply", "count"}
    /\ UNCHANGED <<cand_i, unread_count, unread, open_chat, scheduler_on, last_nav,
                   attempts, cand_raised, counted, opened, pass_clean>>
    /\ UNCHANGED mvars

\* reply_to_current_chat on the active path
ActiveReply ==
    /\ spc = "a_reply"
    /\ spc' = "count"
    /\ UNCHANGED <<cand_i, unread_count, unread, open_chat, scheduler_on, last_nav,
                   attempts, cand_raised, counted, opened, pass_clean>>
    /\ UNCHANGED mvars

\* unread_count = await unread_rows.count()
Count ==
    /\ spc = "count"
    /\ \/ /\ unread_count' = Cardinality(unread)
          /\ counted' = unread
          /\ cand_i' = 0
          /\ IF unread = {}
             THEN spc' = "sleep2" /\ attempts' = 0
             ELSE spc' = "click" /\ attempts' = 1
       \/ /\ spc' = OnRaise("poll")
          /\ UNCHANGED <<unread_count, counted, cand_i, attempts>>
    /\ UNCHANGED <<unread, open_chat, scheduler_on, last_nav, cand_raised, opened,
                   pass_clean>>
    /\ UNCHANGED mvars

\* safe_click(unread_rows.nth(i)): a click, one forced click, else skip
Click ==
    /\ spc = "click"
    /\ \/ /\ cand_i + 1 <= Len(UnreadRows)
          /\ LET c == UnreadRows[cand_i + 1]
             IN  /\ open_chat' = c
                 /\ unread' = unread \ {c}
                 /\ opened' = [opened EXCEPT ![c] = Bump(@)]
          /\ last_nav' = "scanner"
          /\ spc' = "wait"
          /\ UNCHANGED <<cand_i, attempts, pass_clean>>
       \/ /\ Advance
          /\ pass_clean' = (pass_clean /\ cand_i + 1 > Len(UnreadRows))
          /\ UNCHANGED <<open_chat, unread, opened, last_nav>>
    /\ UNCHANGED <<unread_count, scheduler_on, cand_raised, counted>>
    /\ UNCHANGED mvars

\* wait_for_selector("div[role='textbox']", timeout=10000)
WaitInput ==
    /\ spc = "wait"
    /\ \/ spc' = "read" /\ UNCHANGED <<cand_i, attempts, cand_raised>>
       \/ RaiseInCandidate
    /\ UNCHANGED <<unread_count, unread, open_chat, scheduler_on, last_nav, counted,
                   opened, pass_clean>>
    /\ UNCHANGED mvars

\* the header title, the last row, extract_message_payload, the dedup check
ReadLast ==
    /\ spc = "read"
    /\ \/ spc' = "kernel" /\ UNCHANGED <<cand_i, attempts, cand_raised>>
       \/ Advance /\ UNCHANGED cand_raised
       \/ RaiseInCandidate
    /\ UNCHANGED <<unread_count, unread, open_chat, scheduler_on, last_nav, counted,
                   opened, pass_clean>>
    /\ UNCHANGED mvars

\* the kernel call inside generate_response_for_payload returns: a text to
\* send, nothing to send, or an exception
KernelReturn ==
    /\ spc = "kernel"
    /\ \/ spc' = "reply" /\ UNCHANGED <<cand_i, attempts, cand_raised>>
       \/ Advance /\ UNCHANGED cand_raised
       \/ RaiseInCandidate
    /\ UNCHANGED <<unread_count, unread, open_chat, scheduler_on, last_nav, counted,
                   opened, pass_clean>>
    /\ UNCHANGED mvars

\* await reply_to_current_chat(response), which catches what it raises
Reply ==
    /\ spc = "reply"
    /\ Advance
    /\ UNCHANGED <<unread_count, unread, open_chat, scheduler_on, last_nav, cand_raised,
                   counted, opened, pass_clean>>
    /\ UNCHANGED mvars

\* except Exception as e: logger.error(...); continue
CandidateExcept ==
    /\ spc = "cand_except"
    /\ Advance
    /\ UNCHANGED <<unread_count, unread, open_chat, scheduler_on, last_nav, cand_raised,
                   counted, opened, pass_clean>>
    /\ UNCHANGED mvars

\* the end of a poll iteration: back to the loop top
EndIteration(pos) ==
    /\ spc = pos
    /\ spc' = "top"
    /\ cand_i' = 0
    /\ unread_count' = 0
    /\ attempts' = 0
    /\ cand_raised' = {}
    /\ counted' = {}
    /\ opened' = NoneOpened
    /\ pass_clean' = TRUE
    /\ UNCHANGED <<unread, open_chat, scheduler_on, last_nav>>
    /\ UNCHANGED mvars

\* await asyncio.sleep(2) after the loop or when nothing is unread
SleepAfterPass == EndIteration("sleep2")

\* except Exception as e: logger.error(...); await asyncio.sleep(5)
OuterExcept == EndIteration("outer_except")

\* the steps of the task running listen_for_messages
ScannerStep ==
    \/ Top
    \/ Header
    \/ Active
    \/ ActiveKernelReturn
    \/ ActiveReply
    \/ Count
    \/ Click
    \/ WaitInput
    \/ ReadLast
    \/ KernelReturn
    \/ Reply
    \/ CandidateExcept
    \/ SleepAfterPass
    \/ OuterExcept

InitScan == XIdle /\ DInit /\ RIdle /\ MIdle /\ SInit /\ HIdle /\ KIdle /\ WIdle /\ CIdle

NextScan ==
    \/ MonitorSample /\ UNCHANGED <<xvars, dvars, rvars, hvars, kvars, wvars, cvars>>
    \/ SchedulerSend /\ UNCHANGED <<xvars, dvars, rvars, hvars, kvars, wvars, cvars>>
    \/ \E c \in Chats : Arrive(c) /\ UNCHANGED <<xvars, dvars, rvars, hvars, kvars, wvars, cvars>>
    \/ Top /\ UNCHANGED <<xvars, dvars, rvars, hvars, kvars, wvars, cvars>>
    \/ Header /\ UNCHANGED <<xvars, dvars, rvars, hvars, kvars, wvars, cvars>>
    \/ Active /\ UNCHANGED <<xvars, dvars, rvars, hvars, kvars, wvars, cvars>>
    \/ ActiveKernelReturn /\ UNCHANGED <<xvars, dvars, rvars, hvars, kvars, wvars, cvars>>
    \/ ActiveReply /\ UNCHANGED <<xvars, dvars, rvars, hvars, kvars, wvars, cvars>>
    \/ Count /\ UNCHANGED <<xvars, dvars, rvars, hvars, kvars, wvars, cvars>>
    \/ Click /\ UNCHANGED <<xvars, dvars, rvars, hvars, kvars, wvars, cvars>>
    \/ WaitInput /\ UNCHANGED <<xvars, dvars, rvars, hvars, kvars, wvars, cvars>>
    \/ ReadLast /\ UNCHANGED <<xvars, dvars, rvars, hvars, kvars, wvars, cvars>>
    \/ KernelReturn /\ UNCHANGED <<xvars, dvars, rvars, hvars, kvars, wvars, cvars>>
    \/ Reply /\ UNCHANGED <<xvars, dvars, rvars, hvars, kvars, wvars, cvars>>
    \/ CandidateExcept /\ UNCHANGED <<xvars, dvars, rvars, hvars, kvars, wvars, cvars>>
    \/ SleepAfterPass /\ UNCHANGED <<xvars, dvars, rvars, hvars, kvars, wvars, cvars>>
    \/ OuterExcept /\ UNCHANGED <<xvars, dvars, rvars, hvars, kvars, wvars, cvars>>

SpecScan == InitScan /\ [][NextScan]_vars

\* every await of listen_for_messages is bounded by a timeout or a sleep and
\* the kernel bounds its own calls, so the event loop resumes the scanner
\* task whenever it has a step to take
SpecScanLive == SpecScan /\ WF_vars(ScannerStep /\ UNCHANGED <<xvars, dvars, rvars, hvars, kvars, wvars, cvars>>)

----------------------------------------------------------------------------
(* One message through its handler: the emptiness and dedup checks of       *)
(* listen_for_messages / respond_if_new_message_in_open_chat,               *)
(* generate_response_for_payload, and the delivery of what it returned      *)

\* Python `if x` / `if not x` on a value that may be None, "" or b""
Truthy(r) == ~r.null /\ r.val # <<>>

\* str.lower() on the letters of the model's texts
LowerChar(c) ==
    CASE c = "I" -> "i" [] c = "M" -> "m" [] c = "G" -> "g" [] OTHER -> c

Lower(s) == [i \in 1..Len(s) |-> LowerChar(s[i])]

\* str.startswith
StartsWith(s, p) == Len(s) >= Len(p) /\ SubSeq(s, 1, Len(p)) = p

\* s[n:]
From(s, n) == SubSeq(s, n + 1, Len(s))

\* msg_text.split(" ", 1)[1].strip() if " " in msg_text else ""
RECURSIVE AfterFirstSpace(_)
AfterFirstSpace(s) ==
    IF s = <<>> THEN <<>>
    ELSE IF Head(s) = " " THEN Tail(s)
    ELSE AfterFirstSpace(Tail(s))

CommandArg(msg_text) ==
    IF " " \in Range(msg_text) THEN Strip(AfterFirstSpace(msg_text)) ELSE <<>>

CMD_IMAGE == <<"/", "i", "m", "a", "g", "e">>
CMD_IMG == <<"/", "i", "m", "g">>
CMD_VOICE == <<"/", "v", "o", "i", "c", "e">>
CMD_AUDIO == <<"/", "a", "u", "d", "i", "o">>

\* the words of the two patterns of _extract_image_prompt
W_PLEASE == {<<"p", "l", "e", "a", "s", "e">>}
W_MAKE == {<<"g", "e", "n", "e", "r", "a", "t", "e">>, <<"c", "r", "e", "a", "t", "e">>, <<"m", "a", "k", "e">>, <<"d", "r", "a", "w">>, <<"r", "e", "n", "d", "e", "r">>, <<"d", "e", "s", "i", "g", "n">>, <<"p", "r", "o", "d", "u", "c", "e">>}
W_SHOW == {<<"s", "h", "o", "w">>, <<"s", "e", "n", "d">>, <<"g", "i", "v", "e">>}
W_ME == {<<"m", "e">>}
W_NOUN == {<<"i", "m", "a", "g", "e">>, <<"p", "i", "c", "t", "u", "r", "e">>, <<"p", "h", "o", "t", "o">>, <<"i", "l", "l", "u", "s", "t", "r", "a", "t", "i", "o", "n">>, <<"a", "r", "t">>}
W_LINK == {<<"o", "f">>, <<"s", "h", "o", "w", "i", "n", "g">>, <<"w", "i", "t", "h">>, <<"a", "b", "o", "u", "t">>}
K_OF == << <<"i", "m", "a", "g", "e", " ", "o", "f">>, <<"p", "i", "c", "t", "u", "r", "e", " ", "o", "f">>, <<"p", "h", "o", "t", "o", " ", "o", "f">>, <<"i", "l", "l", "u", "s", "t", "r", "a", "t", "i", "o", "n", " ", "o", "f">>, <<"a", "r", "t", " ", "o", "f">> >>

\* a position of re.match in the lowered text s: failed, or n characters consumed
NoMatch == [ok |-> FALSE, n |-> 0]

\* one of the alternatives words at the position
MatchWord(s, st, words) ==
    IF st.ok /\ \E w \in words : StartsWith(From(s, st.n), w)
    THEN [ok |-> TRUE,
          n |-> st.n + Len(CHOOSE w \in words : StartsWith(From(s, st.n), w))]
    ELSE NoMatch

\* \s+ at the position
MatchSpaces(s, st) ==
    IF st.ok /\ From(s, st.n) # <<>> /\ Head(From(s, st.n)) = " "
    THEN [ok |-> TRUE, n |-> Len(s) - Len(LStrip(From(s, st.n)))]
    ELSE NoMatch

\* (x)? : x if it matches, else the position unchanged
Optional(st, matched) == IF matched.ok THEN matched ELSE st

\* (an?\s+)?
MatchArticle(s, st) ==
    Optional(st, Optional(MatchSpaces(s, MatchWord(s, st, {<<"a">>})),
                          MatchSpaces(s, MatchWord(s, st, {<<"a", "n">>}))))

\* (an?\s+)?(image|...)(\s+(of|...))?\s* after the verb part
MatchNounPart(s, st) ==
    LET noun == MatchWord(s, MatchArticle(s, st), W_NOUN)
    IN  Optional(noun, MatchWord(s, MatchSpaces(s, noun), W_LINK))

\* ^(please\s+)?(generate|...)\s+ ...
MatchPattern1(s) ==
    LET st0 == [ok |-> TRUE, n |-> 0]
        please == Optional(st0, MatchSpaces(s, MatchWord(s, st0, W_PLEASE)))
    IN  MatchNounPart(s, MatchSpaces(s, MatchWord(s, please, W_MAKE)))

\* ^(please\s+)?(show|send|give)\s+me\s+ ...
MatchPattern2(s) ==
    LET st0 == [ok |-> TRUE, n |-> 0]
        please == Optional(st0, MatchSpaces(s, MatchWord(s, st0, W_PLEASE)))
        verb == MatchSpaces(s, MatchWord(s, please, W_SHOW))
    IN  MatchNounPart(s, MatchSpaces(s, MatchWord(s, verb, W_ME)))

\* str.find(key) + len(key), as a match position
Find(s, key) ==
    IF \E i \in 0..Len(s) : StartsWith(From(s, i), key)
    THEN [ok |-> TRUE,
          n |-> Len(key) + CHOOSE i \in 0..Len(s) :
                    /\ StartsWith(From(s, i), key)
                    /\ \A j \in 0..(i - 1) : ~StartsWith(From(s, j), key)]
    ELSE NoMatch

\* the for loop over the keys "image of", "picture of", ...
RECURSIVE FindFirstKey(_, _)
FindFirstKey(s, keys) ==
    IF keys = <<>> THEN NoMatch
    ELSE IF Find(s, Head(keys)).ok THEN Find(s, Head(keys))
    ELSE FindFirstKey(s, Tail(keys))

\* returns None, or the prompt (possibly "")
_extract_image_prompt(text) ==
    LET trimmed == Strip(text)
        lowered == Lower(trimmed)
        m == IF MatchPattern1(lowered).ok THEN MatchPattern1(lowered)
             ELSE IF MatchPattern2(lowered).ok THEN MatchPattern2(lowered)
             ELSE FindFirstKey(lowered, K_OF)
    IN  IF trimmed = <<>> \/ ~m.ok THEN None
        ELSE Val(Strip(From(trimmed, m.n)))

\* the fixed texts generate_response_for_payload returns, each kept whole
USAGE_IMAGE == <<"Usage: /image <prompt>">>
IMAGE_FAILED == <<"Image generation failed or IMAGE_MODEL not configured.">>
IMAGE_NOT_SENT == <<"I generated the image but couldn't send it here.">>
USAGE_VOICE == <<"Usage: /voice <text>">>
AUDIO_FAILED == <<"Audio generation failed or TTS_MODEL not configured.">>
AUDIO_NOT_SENT == <<"I generated the audio but couldn't send it here.">>
RESEND_AUDIO ==
    <<"I received a voice note, but I couldn't extract the audio from WhatsApp Web. Please resend it as text.">>
TRANSCRIBE_FAILED == <<"I received a voice note, but I couldn't transcribe it.">>
RESEND_IMAGE ==
    <<"I received an image, but I couldn't extract it from WhatsApp Web. Please resend it or add a text description.">>
RESEND_DOCUMENT ==
    <<"I received a document, but I couldn't extract it from WhatsApp Web. Please resend it or add a text description.">>
PARSE_FAILED == <<"I received the document but couldn't parse it.">>

\* what the kernel operations can return
S_OK == <<"o", "k">>
KernelResults == {None, Val(<<>>), Val(<<" ">>), Val(S_OK)}
EmptyOrNot == {None, Val(<<>>), Val(S_OK)}
KernelReturns ==
    [run : KernelResults, run_with_vision : KernelResults,
     transcribe_audio : EmptyOrNot, extract_document_text : EmptyOrNot,
     generate_image : EmptyOrNot, generate_speech : EmptyOrNot]

Returned(text, calls, sent) == [response |-> Val(text), calls |-> calls, file_sent |-> sent]

\* kernel.generate_image(prompt), _write_temp_file, send_media_to_current_chat
ImageFlow(k, sent) ==
    IF ~Truthy(k["generate_image"])
    THEN Returned(IMAGE_FAILED, {"generate_image"}, FALSE)
    ELSE IF sent THEN Returned(<<>>, {"generate_image"}, TRUE)
    ELSE Returned(IMAGE_NOT_SENT, {"generate_image"}, FALSE)

\* kernel.generate_speech(speech_text), _write_temp_file, send_media_to_current_chat
SpeechFlow(k, sent) ==
    IF ~Truthy(k["generate_speech"])
    THEN Returned(AUDIO_FAILED, {"generate_speech"}, FALSE)
    ELSE IF sent THEN Returned(<<>>, {"generate_speech"}, TRUE)
    ELSE Returned(AUDIO_NOT_SENT, {"generate_speech"}, FALSE)

\* the part of generate_response_for_payload after the text commands
MediaFlow(p, k) ==
    IF p.type = T_AUDIO THEN
        IF p.audio_bytes = NoBytes THEN Returned(RESEND_AUDIO, {}, FALSE)
        ELSE IF ~Truthy(k["transcribe_audio"])
        THEN Returned(TRANSCRIBE_FAILED, {"transcribe_audio"}, FALSE)
        ELSE [response |-> k["run"], calls |-> {"transcribe_audio", "run"},
              file_sent |-> FALSE]
    ELSE IF p.type = T_IMAGE THEN
        IF p.image_bytes = NoBytes THEN Returned(RESEND_IMAGE, {}, FALSE)
        ELSE [response |-> k["run_with_vision"], calls |-> {"run_with_vision"},
              file_sent |-> FALSE]
    ELSE IF p.type = T_DOCUMENT THEN
        IF p.doc_bytes = NoBytes THEN Returned(RESEND_DOCUMENT, {}, FALSE)
        ELSE IF ~Truthy(k["extract_document_text"])
        THEN Returned(PARSE_FAILED, {"extract_document_text"}, FALSE)
        ELSE [response |-> k["run"], calls |-> {"extract_document_text", "run"},
              file_sent |-> FALSE]
    ELSE IF p.text = <<>> THEN Returned(<<>>, {}, FALSE)
    ELSE [response |-> k["run"], calls |-> {"run"}, file_sent |-> FALSE]

\* k: what each kernel operation returns if called; sent: the result of
\* send_media_to_current_chat if called
generate_response_for_payload(p, k, sent) ==
    LET msg_text == p.text
        text_lower == Lower(Strip(msg_text))
    IN  IF msg_text # <<>>
           /\ (StartsWith(text_lower, CMD_IMAGE) \/ StartsWith(text_lower, CMD_IMG))
        THEN IF CommandArg(msg_text) = <<>> THEN Returned(USAGE_IMAGE, {}, FALSE)
             ELSE ImageFlow(k, sent)
        ELSE IF msg_text # <<>> /\ ~_extract_image_prompt(msg_text).null
        THEN ImageFlow(k, sent)
        ELSE IF msg_text # <<>>
                /\ (StartsWith(text_lower, CMD_VOICE) \/ StartsWith(text_lower, CMD_AUDIO))
        THEN IF CommandArg(msg_text) = <<>> THEN Returned(USAGE_VOICE, {}, FALSE)
             ELSE SpeechFlow(k, sent)
        ELSE MediaFlow(p, k)

\* if response and response.strip()
ReplyNeededAlways(r) == TRUE

ReplyNeeded(r) == Truthy(r) /\ Strip(r.val) # <<>>

\* the last rows the handler is given
HandlerRows ==
    << TextRow(S_ID, S_PRE, S_LABEL, S_HI),
       TextRow(S_ID, S_PRE, S_LABEL, <<"/", "I", "M", "G", " ", "x">>),
       TextRow(S_ID, S_PRE, S_LABEL, <<"/", "i", "m", "a", "g", "e">>),
       TextRow(S_ID, S_PRE, S_LABEL, <<"d", "r", "a", "w", " ", "a", "n", " ", "i", "m", "a", "g", "e">>),
       TextRow(S_ID, S_PRE, S_LABEL, <<"/", "v", "o", "i", "c", "e", " ", "x">>),
       TextRow(S_ID, S_PRE, S_LABEL, <<"/", "a", "u", "d", "i", "o">>),
       [TextRow(S_ID, S_PRE, S_LABEL, <<>>) EXCEPT !.audio = BlobUrl(B_AUD)],
       [TextRow(S_ID, S_PRE, S_LABEL, <<>>) EXCEPT !.audio_marker = TRUE],
       [TextRow(S_ID, S_PRE, S_LABEL, S_HI) EXCEPT !.img = DataUrl(B_IMG)],
       [TextRow(S_ID, S_PRE, S_LABEL, <<>>) EXCEPT !.img = DeadBlobUrl],
       [TextRow(S_ID, S_PRE, S_LABEL, <<>>) EXCEPT !.doc_marker = TRUE,
                                                   !.link = DataUrl(B_DOC)],
       [TextRow(S_ID, S_PRE, S_LABEL, <<>>) EXCEPT !.doc_marker = TRUE],
       [TextRow(S_ID, S_PRE, S_LABEL, <<>>) EXCEPT !.img = BadDataUrl,
                                                   !.doc_marker = TRUE],
       TextRow(S_ID, S_PRE, S_LABEL, <<>>) >>

HandlerRowIds == 1..Len(HandlerRows)

HandlerPayload ==
    [r \in HandlerRowIds |-> extract_message_payload(HandlerRows[r], AllFetch(TRUE))]

HInit ==
    /\ hrow \in HandlerRowIds
    /\ hpath \in {"unread", "active"}
    /\ hpc = "observe"
    /\ response = None
    /\ kernel_calls = NoCalls
    /\ file_sent = FALSE
    /\ text_sent = <<>>
    /\ hflags = NoFlags

\* from extract_message_payload to the insert into processed_messages
Observe ==
    LET p == HandlerPayload[hrow]
    IN  /\ hpc = "observe"
        /\ IF IsEmptyPayload(p)
           THEN /\ hflags' = [NoFlags EXCEPT !.empty = TRUE]
                /\ hpc' = "done"
                /\ UNCHANGED <<processed_messages, insertion_order>>
           ELSE IF ~IsNew(p.msg_id, processed_messages)
           THEN /\ hflags' = [NoFlags EXCEPT !.duplicate = TRUE]
                /\ hpc' = "done"
                /\ UNCHANGED <<processed_messages, insertion_order>>
           ELSE /\ hflags' = [NoFlags EXCEPT !.dispatched = TRUE]
                /\ hpc' = "dispatch"
                /\ processed_messages' = processed_messages \cup {p.msg_id}
                /\ insertion_order' = Append(insertion_order, p.msg_id)
        /\ response' = None
        /\ kernel_calls' = NoCalls
        /\ file_sent' = FALSE
        /\ text_sent' = <<>>
        /\ UNCHANGED <<hrow, hpath, dispatch_count, ever_trimmed, last_obs>>

\* response = await generate_response_for_payload(...)
Dispatch ==
    /\ hpc = "dispatch"
    /\ \E k \in KernelReturns, sent \in BOOLEAN :
          LET g == generate_response_for_payload(HandlerPayload[hrow], k, sent)
          IN  /\ response' = g.response
              /\ kernel_calls' =
                     [op \in KernelOps |->
                         IF op \in g.calls THEN [called |-> TRUE, result |-> k[op]]
                         ELSE [called |-> FALSE, result |-> None]]
              /\ file_sent' = g.file_sent
    /\ hpc' = "deliver"
    /\ UNCHANGED <<hrow, hpath, text_sent, hflags, dvars>>

\* logger.info(f"... {response[:100]}..."), which raises TypeError on None
\* into the except of the handler, then the reply if there is one
Deliver ==
    /\ hpc = "deliver"
    /\ IF response.null
       THEN /\ hflags' = [hflags EXCEPT !.raised = TRUE]
            /\ UNCHANGED text_sent
       ELSE IF ReplyNeeded(response)
       THEN /\ hflags' = [hflags EXCEPT !.replied = TRUE]
            /\ text_sent' = response.val
       ELSE UNCHANGED <<hflags, text_sent>>
    /\ hpc' = "done"
    /\ UNCHANGED <<hrow, hpath, response, kernel_calls, file_sent, dvars>>

\* the next poll finds the same row again
ObserveAgain ==
    /\ hpc = "done"
    /\ hflags.dispatched
    /\ hpc' = "observe"
    /\ UNCHANGED <<hrow, hpath, response, kernel_calls, file_sent, text_sent, hflags,
                   dvars>>

InitRespond == XIdle /\ DInit /\ RIdle /\ MIdle /\ SIdle /\ HInit /\ KIdle /\ WIdle /\ CIdle

NextRespond ==
    \/ Observe /\ UNCHANGED <<xvars, rvars, mvars, svars, kvars, wvars, cvars>>
    \/ Dispatch /\ UNCHANGED <<xvars, rvars, mvars, svars, kvars, wvars, cvars>>
    \/ Deliver /\ UNCHANGED <<xvars, rvars, mvars, svars, kvars, wvars, cvars>>
    \/ ObserveAgain /\ UNCHANGED <<xvars, rvars, mvars, svars, kvars, wvars, cvars>>

SpecRespond == InitRespond /\ [][NextRespond]_vars

----------------------------------------------------------------------------
(* The per-user kernels: get_kernel_for_user *)

\* AgentKernel(user_id=user_id): a new object, the obj-th constructed
AgentKernel(user_id, obj) == [obj |-> obj, user_id |-> user_id]

\* if user_id not in user_kernels
KeyMissingAlways(user_id, d) == TRUE

KeyMissing(user_id, d) == user_id \notin DOMAIN d

\* the senders: the ids of the tests and the "Unknown" of a chat without title
Senders == UserIds \cup {"Unknown"}

KInit ==
    /\ user_kernels = <<>>
    /\ instances = 0
    /\ requested = <<>>
    /\ last_call = NoCall

get_kernel_for_user(user_id) ==
    LET create == KeyMissing(user_id, user_kernels)
        kernels1 == IF create
                    THEN (user_id :> AgentKernel(user_id, instances + 1)) @@ user_kernels
                    ELSE user_kernels
    IN  /\ user_kernels' = kernels1
        /\ instances' = IF create THEN instances + 1 ELSE instances
        /\ last_call' = [user |-> user_id, result |-> kernels1[user_id].obj,
                         created |-> create]
        /\ requested' = IF user_id \in DOMAIN requested THEN requested
                        ELSE (user_id :> kernels1[user_id].obj) @@ requested

InitKernels == XIdle /\ DInit /\ RIdle /\ MIdle /\ SIdle /\ HIdle /\ KInit /\ WIdle /\ CIdle

NextKernels ==
    \E u \in Senders : get_kernel_for_user(u) /\ UNCHANGED <<xvars, dvars, rvars, mvars, svars, hvars, wvars, cvars>>

SpecKernels == InitKernels /\ [][NextKernels]_vars

----------------------------------------------------------------------------
(* The scripted client library: _ensure_wpp_ready, called by every          *)
(* _send_text_via_wpp and _send_media_via_wpp                               *)

WInit ==
    /\ wpc = "idle"
    /\ wpp_caller = "none"
    /\ window_WPP = FALSE
    /\ bundle_exists \in BOOLEAN
    /\ init_scripts = 0
    /\ injections = 0
    /\ reloads = 0
    /\ ensure_result = "none"

\* return True / return False of _ensure_wpp_ready
EnsureReturns(v) == wpc' = "idle" /\ ensure_result' = v

\* a send calls _ensure_wpp_ready: has_wpp = evaluate("() => Boolean(window.WPP)")
CheckWpp ==
    /\ wpc = "idle"
    /\ wpp_caller' \in {"text", "file"}
    /\ \/ /\ wpc' = IF window_WPP THEN "wait_ready"
                    ELSE IF bundle_exists THEN "inject"
                    ELSE "fallback"
          /\ ensure_result' = "none"
       \/ EnsureReturns("false")
    /\ UNCHANGED <<window_WPP, bundle_exists, init_scripts, injections, reloads>>

\* open(local_wpp_path).read() and evaluate(wpp_script_content); loaded = True
\* if neither raised
InjectScript ==
    /\ wpc = "inject"
    /\ \/ /\ injections' = Bump(injections)
          /\ window_WPP' = TRUE
          /\ wpc' = "wait_ready"
       \/ /\ injections' = Bump(injections)
          /\ UNCHANGED window_WPP
          /\ wpc' = "fallback"
       \/ /\ UNCHANGED <<injections, window_WPP>>
          /\ wpc' = "fallback"
    /\ UNCHANGED <<wpp_caller, bundle_exists, init_scripts, reloads, ensure_result>>

\* if not loaded: add_init_script(path=local_wpp_path), which raises when the
\* bundle cannot be read
AddInitScript ==
    /\ wpc = "fallback"
    /\ \/ /\ bundle_exists
          /\ init_scripts' = Bump(init_scripts)
          /\ wpc' = "reload"
          /\ UNCHANGED ensure_result
       \/ /\ EnsureReturns("false")
          /\ UNCHANGED init_scripts
    /\ UNCHANGED <<wpp_caller, window_WPP, bundle_exists, injections, reloads>>

\* reload(), wait_for_load_state("networkidle"), loaded = evaluate(Boolean(window.WPP));
\* the reloaded page runs the init scripts, which may or may not define WPP
ReloadPage ==
    /\ wpc = "reload"
    /\ reloads' = Bump(reloads)
    /\ \E present \in BOOLEAN :
          /\ window_WPP' = present
          /\ \/ /\ present
                /\ wpc' = "wait_ready"
                /\ UNCHANGED ensure_result
             \/ EnsureReturns("false")
    /\ UNCHANGED <<wpp_caller, bundle_exists, init_scripts, injections>>

\* wait_for_function(window.WPP && (window.WPP.isReady || window.WPP.conn), 20 s)
WaitReady ==
    /\ wpc = "wait_ready"
    /\ \/ EnsureReturns("true")
       \/ EnsureReturns("false")
    /\ UNCHANGED <<wpp_caller, window_WPP, bundle_exists, init_scripts, injections, reloads>>

\* between two sends the page is navigated (send_whatsapp_message's goto):
\* the new document has window.WPP only if an init script defines it
PageNavigates ==
    /\ wpc = "idle"
    /\ window_WPP
    /\ window_WPP' \in {FALSE, init_scripts > 0}
    /\ window_WPP' # window_WPP
    /\ UNCHANGED <<wpc, wpp_caller, bundle_exists, init_scripts, injections, reloads,
                   ensure_result>>

InitWpp == XIdle /\ DInit /\ RIdle /\ MIdle /\ SIdle /\ HIdle /\ KIdle /\ WInit /\ CIdle

NextWpp ==
    \/ CheckWpp /\ UNCHANGED <<xvars, dvars, rvars, mvars, svars, hvars, kvars, cvars>>
    \/ InjectScript /\ UNCHANGED <<xvars, dvars, rvars, mvars, svars, hvars, kvars, cvars>>
    \/ AddInitScript /\ UNCHANGED <<xvars, dvars, rvars, mvars, svars, hvars, kvars, cvars>>
    \/ ReloadPage /\ UNCHANGED <<xvars, dvars, rvars, mvars, svars, hvars, kvars, cvars>>
    \/ WaitReady /\ UNCHANGED <<xvars, dvars, rvars, mvars, svars, hvars, kvars, cvars>>
    \/ PageNavigates /\ UNCHANGED <<xvars, dvars, rvars, mvars, svars, hvars, kvars, cvars>>

SpecWpp == InitWpp /\ [][NextWpp]_vars

----------------------------------------------------------------------------
(* The polls of listen_for_messages over the chats of the page, while      *)
(* connected (is_logged_in stays true) and with the scheduler enabled.     *)
(* Every inbound message has its own data-id, so its token is its own.     *)

MaxArrivals == 2

\* the tokens the store holds at start: a session that already answered
\* Capacity messages of other chats
OldTokens == {<<0, k>> : k \in 1..Capacity}

YOU == <<"Y", "o", "u", ":">>

OUTGOING == <<"o", "u", "t", "g", "o", "i", "n", "g">>

\* data-pre-plain-text of a row written locally and of a row received
PRE_OWN == <<"[", "]", " ">> \o YOU \o <<" ">>

PRE_IN == <<"[", "]", " ", "B", "o", "b", ":", " ">>

\* Python's "sub in s"
Contains(s, sub) ==
    \E i \in 1..(Len(s) - Len(sub) + 1) : SubSeq(s, i, i + Len(sub) - 1) = sub

OwnNever(r) == FALSE

\* if pre_plain and "You:" in pre_plain: continue
OwnOnUnreadPath(r) == r.pre_plain # <<>> /\ Contains(r.pre_plain, YOU)

\* "You:" in pre_plain or "You:" in aria_label or "outgoing" in aria_label.lower()
OwnOnActivePath(r) ==
    \/ Contains(r.pre_plain, YOU)
    \/ Contains(r.aria_label, YOU)
    \/ Contains(Lower(r.aria_label), OUTGOING)

\* messages = query_selector_all("div[data-pre-plain-text]") is not empty
HasRows(c) == own_last[c] \/ inbound[c] > 0

\* messages[-1] of the chat c
LastRow(c) ==
    IF own_last[c]
    THEN [pre_plain |-> PRE_OWN, aria_label |-> <<>>, n |-> 0]
    ELSE [pre_plain |-> PRE_IN, aria_label |-> <<>>, n |-> inbound[c]]

\* payload["msg_id"] of the n-th inbound message of chat c
ChatMsgId(c, n) == <<c, n>>

CurToken == ChatMsgId(cur.chat, cur.n)

\* header.get_attribute("title") of the chat c
ChatTitle(c) == ToString(c)

\* kernel = get_kernel_for_user(sender_id) if sender_id else agent_kernel:
\* the kernel is named by its user_id
DEFAULT_USER == Val("default_user")

KernelOf(sender_id) == IF sender_id # None THEN sender_id ELSE DEFAULT_USER

\* unread_rows.nth(i), resolved when it is used
BadgeRows == SortedSeq(badges)

\* safe_click: after the first click raised, one forced click; after that
\* raised too, return False
AfterClickRaisedAgain(tries) == "force"

AfterClickRaised(tries) == IF "force" \in Range(tries) THEN "skip" ELSE "force"

\* processed_messages.add(msg_id), before generate_response_for_payload
NotInserted(store, t) == store

Inserted(store, t) == store \cup {t}

CInit ==
    /\ cpc = "top"
    /\ chat_open \in {0} \cup Chats
    /\ badges = {}
    /\ inbound = [c \in Chats |-> 0]
    /\ own_last = [c \in Chats |-> FALSE]
    /\ arrivals = 0
    /\ processed \in {{}, OldTokens}
    /\ ci = 0
    /\ cn = 0
    /\ cur = NoMsg
    /\ click_log = <<>>
    /\ send_log = <<>>
    /\ last_dispatch = NoDispatch
    /\ last_delivery = NoDelivery
    /\ failed = {}
    /\ skip = NoSkip

\* the next i of the for loop, or the sleep that ends the poll
NextCandidate ==
    IF ci + 1 < cn
    THEN cpc' = "click" /\ ci' = ci + 1
    ELSE cpc' = "sleep" /\ ci' = ci

\* where the scanner continues after a row was handled or passed over
Continue(path) ==
    IF path = "active"
    THEN cpc' = "count" /\ ci' = ci
    ELSE NextCandidate

\* if len(processed_messages) > 1000: keep list(processed_messages)[-500:],
\* on the unread path only; the list is in hash order
TrimAfter(path, store) ==
    IF path = "unread" /\ NeedsTrim(store)
    THEN \E keep \in SUBSET store :
            /\ Cardinality(keep) = KeepCount
            /\ processed' = keep
    ELSE processed' = store

\* a message arrives: the row of a chat that is not open gets a badge
InboundArrives(c) ==
    /\ arrivals < MaxArrivals
    /\ arrivals' = arrivals + 1
    /\ inbound' = [inbound EXCEPT ![c] = @ + 1]
    /\ own_last' = [own_last EXCEPT ![c] = FALSE]
    /\ badges' = IF c = chat_open THEN badges ELSE badges \cup {c}
    /\ UNCHANGED <<cpc, chat_open, processed, ci, cn, cur, click_log, send_log,
                   last_dispatch, last_delivery, failed, skip>>

\* scheduler_loop: send_whatsapp_message navigates to USER_PHONE's chat and
\* sends; it runs at an await of the scanner, never inside a kernel call
SchedulerNavigates ==
    /\ cpc # "kernel"
    /\ chat_open' = UserPhoneChat
    /\ badges' = badges \ {UserPhoneChat}
    /\ own_last' = [own_last EXCEPT ![UserPhoneChat] = TRUE]
    /\ UNCHANGED <<cpc, inbound, arrivals, processed, ci, cn, cur, click_log, send_log,
                   last_dispatch, last_delivery, failed, skip>>

\* the loop top: the header query and, with no chat open, safe_click on the
\* first chat row
PollTop ==
    /\ cpc = "top"
    /\ cpc' = "active"
    /\ \/ UNCHANGED <<chat_open, badges>>
       \/ /\ chat_open = 0
          /\ chat_open' = FirstRow
          /\ badges' = badges \ {FirstRow}
    /\ UNCHANGED <<inbound, own_last, arrivals, processed, ci, cn, cur, click_log,
                   send_log, last_dispatch, last_delivery, failed, skip>>

\* respond_if_new_message_in_open_chat up to the extraction of the last row
ActiveCheck ==
    /\ cpc = "active"
    /\ IF chat_open = 0 \/ ~HasRows(chat_open)
       THEN cpc' = "count" /\ UNCHANGED <<cur, skip>>
       ELSE IF OwnOnActivePath(LastRow(chat_open))
       THEN /\ cpc' = "count"
            /\ skip' = [why |-> "own", path |-> "active"]
            /\ UNCHANGED cur
       ELSE /\ cpc' = "dedup"
            /\ cur' = [chat |-> chat_open, n |-> LastRow(chat_open).n,
                       path |-> "active", sender |-> None]
            /\ UNCHANGED skip
    /\ UNCHANGED <<chat_open, badges, inbound, own_last, arrivals, processed, ci, cn,
                   click_log, send_log, last_dispatch, last_delivery, failed>>

\* unread_count = await unread_rows.count()
CountUnread ==
    /\ cpc = "count"
    /\ cn' = Cardinality(badges)
    /\ ci' = 0
    /\ cpc' = IF badges = {} THEN "sleep" ELSE "click"
    /\ click_log' = <<>>
    /\ UNCHANGED <<chat_open, badges, inbound, own_last, arrivals, processed, cur,
                   send_log, last_dispatch, last_delivery, failed, skip>>

\* the chat row is clicked: it opens and its badge goes
Opens(c) ==
    /\ chat_open' = c
    /\ badges' = badges \ {c}

\* safe_click: scroll_into_view_if_needed() and click(timeout=5000)
ClickCandidate ==
    /\ cpc = "click"
    /\ \/ /\ ci + 1 <= Len(BadgeRows)
          /\ Opens(BadgeRows[ci + 1])
          /\ click_log' = <<"click">>
          /\ cpc' = "read"
          /\ UNCHANGED <<ci, skip>>
       \/ /\ \E made \in {<<>>, <<"click">>} :
                /\ click_log' = made
                /\ cpc' = AfterClickRaised(made)
          /\ UNCHANGED <<chat_open, badges, ci, skip>>
    /\ UNCHANGED <<inbound, own_last, arrivals, processed, cn, cur, send_log,
                   last_dispatch, last_delivery, failed>>

\* safe_click: click(timeout=5000, force=True); when it raises too the
\* candidate is passed over
ForcedClick ==
    /\ cpc = "force"
    /\ click_log' = Append(click_log, "force")
    /\ \/ /\ ci + 1 <= Len(BadgeRows)
          /\ Opens(BadgeRows[ci + 1])
          /\ cpc' = "read"
          /\ UNCHANGED <<ci, skip>>
       \/ /\ IF AfterClickRaised(click_log') = "skip"
             THEN /\ NextCandidate
                  /\ skip' = [why |-> "click", path |-> "unread"]
             ELSE /\ cpc' = "force"
                  /\ UNCHANGED <<ci, skip>>
          /\ UNCHANGED <<chat_open, badges>>
    /\ UNCHANGED <<inbound, own_last, arrivals, processed, cn, cur, send_log,
                   last_dispatch, last_delivery, failed>>

\* the candidate's chat is open: wait_for_selector for the input box, the
\* header title, the last row carrying data-pre-plain-text and its extraction
ReadCandidate ==
    /\ cpc = "read"
    /\ \/ /\ NextCandidate
          /\ skip' = [why |-> "raised", path |-> "unread"]
          /\ UNCHANGED cur
       \/ /\ chat_open # 0
          /\ IF ~HasRows(chat_open)
             THEN NextCandidate /\ UNCHANGED <<cur, skip>>
             ELSE IF OwnOnUnreadPath(LastRow(chat_open))
             THEN /\ NextCandidate
                  /\ skip' = [why |-> "own", path |-> "unread"]
                  /\ UNCHANGED cur
             ELSE /\ cpc' = "dedup"
                  /\ cur' = [chat |-> chat_open, n |-> LastRow(chat_open).n,
                             path |-> "unread", sender |-> Val(ChatTitle(chat_open))]
                  /\ UNCHANGED <<ci, skip>>
    /\ UNCHANGED <<chat_open, badges, inbound, own_last, arrivals, processed, cn,
                   click_log, send_log, last_dispatch, last_delivery, failed>>

\* if msg_id not in processed_messages: processed_messages.add(msg_id) and
\* the call of generate_response_for_payload, with sender_id on the unread
\* path and without it on the active path
DispatchNew ==
    /\ cpc = "dedup"
    /\ IF CurToken \in processed
       THEN /\ Continue(cur.path)
            /\ skip' = [why |-> "seen", path |-> cur.path]
            /\ UNCHANGED <<processed, last_dispatch, send_log>>
       ELSE /\ processed' = Inserted(processed, CurToken)
            /\ cpc' = "kernel"
            /\ last_dispatch' = [chat |-> cur.chat, n |-> cur.n, path |-> cur.path,
                                 kernel |-> KernelOf(cur.sender)]
            /\ send_log' = <<>>
            /\ UNCHANGED <<ci, skip>>
    /\ UNCHANGED <<chat_open, badges, inbound, own_last, arrivals, cn, cur, click_log,
                   last_delivery, failed>>

\* the kernel call returns a text to send, returns nothing to send, or
\* raises (a None result raises at response[:100])
KernelCallEnds ==
    /\ cpc = "kernel"
    /\ \/ /\ cpc' = "send_wpp"
          /\ UNCHANGED <<processed, ci, failed>>
       \/ /\ TrimAfter(cur.path, processed)
          /\ Continue(cur.path)
          /\ UNCHANGED failed
       \/ /\ failed' = failed \cup {CurToken}
          /\ Continue(cur.path)
          /\ UNCHANGED processed
    /\ UNCHANGED <<chat_open, badges, inbound, own_last, arrivals, cn, cur, click_log,
                   send_log, last_dispatch, last_delivery, skip>>

\* the reply lands in the chat that is open when it is sent, where it becomes
\* the trailing row
DeliveredInto(c) ==
    /\ last_delivery' = [to |-> c, from |-> cur.chat]
    /\ own_last' = [own_last EXCEPT ![c] = TRUE]

\* reply_to_current_chat: _send_text_via_wpp, which sends to
\* WPP.chat.getActiveChat(); _ensure_wpp_ready may reload the page first
SendViaWpp ==
    /\ cpc = "send_wpp"
    /\ send_log' = Append(send_log, "wpp")
    /\ \/ /\ chat_open # 0
          /\ DeliveredInto(chat_open)
          /\ TrimAfter(cur.path, processed)
          /\ Continue(cur.path)
          /\ UNCHANGED chat_open
       \/ /\ cpc' = "send_dom"
          /\ chat_open' \in {chat_open, 0}
          /\ UNCHANGED <<own_last, last_delivery, processed, ci>>
    /\ UNCHANGED <<badges, inbound, arrivals, cn, cur, click_log, last_dispatch, failed,
                   skip>>

\* reply_to_current_chat: the input box, the typed lines and Enter; with no
\* input box or on an exception it returns False
SendViaDom ==
    /\ cpc = "send_dom"
    /\ send_log' = Append(send_log, "dom")
    /\ \/ /\ chat_open # 0
          /\ DeliveredInto(chat_open)
          /\ UNCHANGED failed
       \/ /\ failed' = failed \cup {CurToken}
          /\ UNCHANGED <<own_last, last_delivery>>
    /\ TrimAfter(cur.path, processed)
    /\ Continue(cur.path)
    /\ UNCHANGED <<chat_open, badges, inbound, arrivals, cn, cur, click_log,
                   last_dispatch, skip>>

\* await asyncio.sleep(2), then the next poll
PollSleep ==
    /\ cpc = "sleep"
    /\ cpc' = "top"
    /\ ci' = 0
    /\ cn' = 0
    /\ cur' = NoMsg
    /\ click_log' = <<>>
    /\ send_log' = <<>>
    /\ last_dispatch' = NoDispatch
    /\ last_delivery' = NoDelivery
    /\ skip' = NoSkip
    /\ UNCHANGED <<chat_open, badges, inbound, own_last, arrivals, processed, failed>>

\* the steps of the task running listen_for_messages
PollStep ==
    \/ PollTop
    \/ ActiveCheck
    \/ CountUnread
    \/ ClickCandidate
    \/ ForcedClick
    \/ ReadCandidate
    \/ DispatchNew
    \/ KernelCallEnds
    \/ SendViaWpp
    \/ SendViaDom
    \/ PollSleep

InitChat == XIdle /\ DInit /\ RIdle /\ MIdle /\ SIdle /\ HIdle /\ KIdle /\ WIdle /\ CInit

NextChat ==
    \/ \E c \in Chats : InboundArrives(c) /\ UNCHANGED <<xvars, dvars, rvars, mvars, svars, hvars, kvars, wvars>>
    \/ SchedulerNavigates /\ UNCHANGED <<xvars, dvars, rvars, mvars, svars, hvars, kvars, wvars>>
    \/ PollTop /\ UNCHANGED <<xvars, dvars, rvars, mvars, svars, hvars, kvars, wvars>>
    \/ ActiveCheck /\ UNCHANGED <<xvars, dvars, rvars, mvars, svars, hvars, kvars, wvars>>
    \/ CountUnread /\ UNCHANGED <<xvars, dvars, rvars, mvars, svars, hvars, kvars, wvars>>
    \/ ClickCandidate /\ UNCHANGED <<xvars, dvars, rvars, mvars, svars, hvars, kvars, wvars>>
    \/ ForcedClick /\ UNCHANGED <<xvars, dvars, rvars, mvars, svars, hvars, kvars, wvars>>
    \/ ReadCandidate /\ UNCHANGED <<xvars, dvars, rvars, mvars, svars, hvars, kvars, wvars>>
    \/ DispatchNew /\ UNCHANGED <<xvars, dvars, rvars, mvars, svars, hvars, kvars, wvars>>
    \/ KernelCallEnds /\ UNCHANGED <<xvars, dvars, rvars, mvars, svars, hvars, kvars, wvars>>
    \/ SendViaWpp /\ UNCHANGED <<xvars, dvars, rvars, mvars, svars, hvars, kvars, wvars>>
    \/ SendViaDom /\ UNCHANGED <<xvars, dvars, rvars, mvars, svars, hvars, kvars, wvars>>
    \/ PollSleep /\ UNCHANGED <<xvars, dvars, rvars, mvars, svars, hvars, kvars, wvars>>

SpecChat == InitChat /\ [][NextChat]_vars

\* every await of listen_for_messages is bounded by a timeout or a sleep, so
\* the event loop resumes the scanner task whenever it has a step to take
SpecChatLive ==
    SpecChat /\ WF_vars(PollStep /\ UNCHANGED <<xvars, dvars, rvars, mvars, svars, hvars, kvars, wvars>>)

----------------------------------------------------------------------------
(* Claims about the dedup store, checked under Spec *)

RECURSIVE SumCounts(_, _)
SumCounts(f, rows) ==
    IF rows = {} THEN 0
    ELSE LET r == CHOOSE x \in rows : TRUE
         IN  f[r] + SumCounts(f, rows \ {r})

AllTokens == {RowPayload[r].msg_id : r \in RowIds}

\* how often a row carrying the token t has been dispatched
TokenDispatches(t) ==
    SumCounts(dispatch_count, {r \in RowIds : RowPayload[r].msg_id = t})

\* C1: before any trim, whatever the order of observations on the two paths,
\* every token has been dispatched exactly once if it is in the store and
\* never otherwise, and an observation that found its token in the store
\* caused neither a dispatch nor a reply.
C1_DedupExactlyOnce ==
    ~ever_trimmed =>
        /\ \A t \in AllTokens :
               TokenDispatches(t) = IF t \in processed_messages THEN 1 ELSE 0
        /\ last_obs.in_store => ~last_obs.dispatched /\ ~last_obs.replied

C1_Witness ==
    /\ ~ever_trimmed
    /\ last_obs.path = "active"
    /\ last_obs.in_store
    /\ ~last_obs.dispatched
    /\ dispatch_count[last_obs.row] = 1
    /\ Cardinality(processed_messages) = 2

\* C2: the store never holds more than capacity + 1 tokens.
C2_TrimBound == Cardinality(processed_messages) <= Capacity + 1

\* C3: a step that trims leaves exactly the KeepCount most recently inserted
\* tokens (the just inserted one being the most recent) in the store.
C3_TrimKeepsNewest ==
    [][last_obs'.trimmed =>
          processed_messages' =
              Range(Suffix(Append(insertion_order, RowPayload[last_obs'.row].msg_id),
                           KeepCount))]_vars

\* the row whose media is detected and never decodes
MediaRow == CHOOSE r \in RowIds : DedupRows[r].audio_marker

MediaToken == S_ID2 \o COLON \o T_AUDIO \o COLON \o NOMEDIA

\* C5 as stated: the undecodable row is never dispatched a second time.
C5_NeverDispatchedAgain == dispatch_count[MediaRow] <= 1

\* C5 amended: every extraction of the undecodable row yields media_detected,
\* no bytes and the token seed:type:nomedia, and while that token is in the
\* store no observation of the row dispatches it or replies to it.
C5_StableUntilEvicted ==
    [][/\ last_obs'.row = MediaRow =>
             /\ RowPayload[MediaRow].media_detected
             /\ RowPayload[MediaRow].image_bytes = NoBytes
             /\ RowPayload[MediaRow].audio_bytes = NoBytes
             /\ RowPayload[MediaRow].doc_bytes = NoBytes
             /\ RowPayload[MediaRow].msg_id = MediaToken
       /\ MediaToken \in processed_messages =>
             /\ dispatch_count'[MediaRow] = dispatch_count[MediaRow]
             /\ last_obs'.row = MediaRow =>
                    ~last_obs'.dispatched /\ ~last_obs'.replied]_vars

C5_Witness ==
    /\ last_obs.row = MediaRow
    /\ last_obs.in_store
    /\ ~last_obs.dispatched
    /\ dispatch_count[MediaRow] = 1
    /\ MediaToken \in processed_messages

\* C7: an observation is rejected as a duplicate only if that very message
\* was dispatched before.
C7_NoFalseDuplicate ==
    last_obs.in_store => dispatch_count[last_obs.row] >= 1

----------------------------------------------------------------------------
(* Claims about extract_message_payload, checked under SpecExtract *)

\* C4: two extractions of the same unchanged row return the same msg_id.
C4_IdempotentIdentity == xpc = "done" => payload1.msg_id = payload2.msg_id

Modalities == {"audio", "image", "document"}

Rank(m) == IF m = "audio" THEN 1 ELSE IF m = "image" THEN 2 ELSE 3

TypeName(m) ==
    IF m = "audio" THEN T_AUDIO ELSE IF m = "image" THEN T_IMAGE ELSE T_DOCUMENT

\* the modality of highest priority in a non-empty set of modalities
Best(ms) == CHOOSE m \in ms : \A n \in ms : Rank(m) <= Rank(n)

\* the modalities detected on the row (detection does not depend on the fetches)
DetectedOn(r) ==
    LET media == _extract_media_from_message(r, AllFetch(FALSE))
    IN  {m \in Modalities :
            \/ m = "audio" /\ media.audio_detected
            \/ m = "image" /\ media.image_detected
            \/ m = "document" /\ media.doc_detected}

\* the modalities whose bytes the payload carries
DecodedIn(p) ==
    {m \in Modalities :
        \/ m = "audio" /\ p.audio_bytes # NoBytes
        \/ m = "image" /\ p.image_bytes # NoBytes
        \/ m = "document" /\ p.doc_bytes # NoBytes}

\* C6 as stated: the media type is the highest-priority detected modality,
\* whichever bytes decoded.
C6_DetectedPriority ==
    xpc # "first" =>
        payload1.type =
            IF DetectedOn(row) = {} THEN T_TEXT ELSE TypeName(Best(DetectedOn(row)))

\* C6 amended: the media type is the highest-priority modality among those
\* whose bytes decoded, and only when none decoded the highest-priority
\* modality among those detected (text when none is detected); a row with an
\* image marker and a document marker and no audio resolves to image unless
\* only the document's bytes decoded.
C6_DecodedThenDetected ==
    xpc # "first" =>
        /\ payload1.type =
               IF DecodedIn(payload1) # {} THEN TypeName(Best(DecodedIn(payload1)))
               ELSE IF DetectedOn(row) # {} THEN TypeName(Best(DetectedOn(row)))
               ELSE T_TEXT
        /\ DetectedOn(row) = {"image", "document"} =>
               payload1.type =
                   IF DecodedIn(payload1) = {"document"} THEN T_DOCUMENT ELSE T_IMAGE

C6_Witness ==
    /\ xpc = "done"
    /\ DetectedOn(row) = Modalities
    /\ DecodedIn(payload1) = {"image", "document"}
    /\ payload1.type = T_IMAGE

----------------------------------------------------------------------------
(* Claims about delivery, checked under SpecReply *)

RECURSIVE CountNL(_)
CountNL(msg) ==
    IF msg = <<>> THEN 0
    ELSE (IF Head(msg) = NL THEN 1 ELSE 0) + CountNL(Tail(msg))

Presses(evs, k) == {i \in 1..Len(evs) : evs[i].kind = "press" /\ evs[i].key = k}
Types(evs) == {i \in 1..Len(evs) : evs[i].kind = "type"}

\* the typed lines joined by newlines
RECURSIVE Joined(_)
Joined(evs) ==
    IF evs = <<>> THEN <<>>
    ELSE IF evs[1].kind = "type" THEN evs[1].text \o Joined(Tail(evs))
    ELSE IF evs[1].key = "Shift+Enter" THEN <<NL>> \o Joined(Tail(evs))
    ELSE Joined(Tail(evs))

\* C8: on the DOM fallback no Enter is pressed before the last line has been
\* typed, and when the fallback has sent a message with k newlines the key
\* events are k+1 typed lines, each of the first k followed by one
\* Shift+Enter, then one Enter as the last event; what was typed is the message.
C8_MultiLineFidelity ==
    LET k == CountNL(message)
        n == Len(key_events)
    IN  /\ \A i \in Presses(key_events, "Enter") :
               i = n /\ Cardinality(Types(key_events)) = k + 1
        /\ \A i \in Presses(key_events, "Shift+Enter") :
               i > 1 /\ key_events[i - 1].kind = "type"
        /\ (send_kind = "text" /\ dom_result = "ok") =>
               /\ Cardinality(Presses(key_events, "Shift+Enter")) = k
               /\ Cardinality(Presses(key_events, "Enter")) = 1
               /\ n = 2 * k + 2
               /\ Joined(key_events) = message

C8_Witness ==
    /\ send_kind = "text"
    /\ dom_result = "ok"
    /\ message = <<"a", NL, "a", NL, "a">>
    /\ Cardinality(Presses(key_events, "Shift+Enter")) = 2
    /\ key_events[Len(key_events)] = PressEvent("Enter")

\* C9: the scripted path is tried first; if it succeeds the DOM path is not
\* exercised; if it reports not ready or not sent, or raises, the DOM path is
\* exercised and its result is what is returned; nothing is raised.
C9_DeliveryFallback ==
    returned # "none" =>
        /\ returned # "raised"
        /\ USE_WPP_SEND => wpp_result # "untried"
        /\ wpp_result = "ok" => dom_result = "untried" /\ returned = "true"
        /\ wpp_result \notin {"ok", "untried"} =>
               /\ dom_result \in {"ok", "failed"}
               /\ returned = IF dom_result = "ok" THEN "true" ELSE "false"

----------------------------------------------------------------------------
(* Claims about the login monitor, checked under SpecMonitor *)

\* C10: the step that completes a sample without a query error leaves
\* is_logged_in true exactly if the sample saw a chat marker and no QR
\* marker, and leaves it unchanged if the previous completed sample read the
\* same markers.
C10_LoginClassification ==
    [][(mpc = "classify" /\ mpc' = "sleep") =>
          /\ is_logged_in' =
                 ((sample.chat_list \/ sample.chat_grid \/ sample.chat_textbox)
                  /\ ~sample.qr)
          /\ (last_sample.ok /\ last_sample.markers = sample) =>
                 is_logged_in' = is_logged_in]_vars

C10_Witness ==
    /\ mpc = "sleep"
    /\ last_sample.ok
    /\ last_sample.markers.qr
    /\ last_sample.markers.chat_grid
    /\ prev_flag
    /\ ~is_logged_in

\* C11: after a sample that ended in a query error the login flag is not
\* "connected", whatever it was before the failure.
C11_DegradesOnQueryError ==
    (mpc = "sleep" /\ ~last_sample.ok) => ~is_logged_in

----------------------------------------------------------------------------
(* Claims about the scan loop, checked under SpecScan *)

\* C12: at every position at which listen_for_messages is about to open a
\* chat, extract, dispatch to the kernel or deliver a reply, is_logged_in is
\* true.
C12_ConnectedAtEveryStep ==
    spc \in {"click", "wait", "read", "kernel", "reply", "a_kernel", "a_reply"}
        => is_logged_in

\* C12, as the code has it: a poll iteration leaves the loop top only when
\* is_logged_in is true at that moment; the flag is not read again during
\* the iteration.
C12_GatedAtLoopTop ==
    [][(spc = "top" /\ spc' # "top") => is_logged_in]_vars

C12_Witness == spc = "reply" /\ ~is_logged_in

\* C13: an exception raised while handling candidate i never reaches the
\* handler of the poll loop, and when the for loop ends every candidate
\* 0 .. unread_count-1 has been attempted.
C13_RemainingCandidatesAttempted ==
    /\ cand_raised # {} => spc \notin {"outer_except", "escaped"}
    /\ (spc = "sleep2" /\ unread_count > 0) => attempts = unread_count

C13_Witness ==
    /\ spc = "sleep2"
    /\ 0 \in cand_raised
    /\ unread_count = 2
    /\ attempts = 2

\* C14: no exception escapes listen_for_messages, and after every failure
\* caught by one of its handlers the loop reaches its top again.
C14_LoopSurvives ==
    /\ [](spc # "escaped")
    /\ (spc \in {"cand_except", "outer_except"}) ~> (spc = "top")

C14_Witness == spc = "outer_except" /\ is_logged_in

\* C15: while a candidate is being handled, between the click that opened
\* its chat and the delivery of the reply, the last task that changed the
\* open chat is the scanner.
C15_OnlyScannerNavigates ==
    spc \in {"wait", "read", "kernel", "reply"} => last_nav = "scanner"

\* C16: while a kernel call is in progress the login monitor can take a step.
C16_MonitorRunsDuringKernelCall ==
    spc \in {"kernel", "a_kernel"} => ENABLED MonitorSample

\* C20: when a scan pass ends in which no click on a listed row failed and
\* nothing but the scanner changed the badges, every chat that had a badge
\* when the pass counted has been opened exactly once.
C20_EveryUnreadOpenedOnce ==
    (spc = "sleep2" /\ unread_count > 0 /\ pass_clean) =>
        \A c \in counted : opened[c] = 1

----------------------------------------------------------------------------
(* Claims about the message handler, checked under SpecRespond *)

\* the kernel operation op was called for this message and returned an
\* empty or null result
EmptyResult(op) == kernel_calls[op].called /\ ~Truthy(kernel_calls[op].result)

\* C17: when a kernel operation called for the message returned an empty or
\* null result, neither a text nor a file is delivered into the chat.
C17_EmptyMeansNoReply ==
    (hpc = "done" /\ \E op \in KernelOps : EmptyResult(op)) =>
        ~hflags.replied /\ ~file_sent

\* C17, as the code has it: an empty or null result of run or run_with_vision
\* delivers nothing; an empty or null result of transcribe_audio,
\* extract_document_text, generate_image or generate_speech delivers that
\* operation's fixed failure notice as the reply and no file; a null
\* response is the only thing that raises, and it raises into the handler's
\* own except.
C17_EmptyResultOutcome ==
    hpc = "done" =>
        /\ (EmptyResult("run") \/ EmptyResult("run_with_vision")) =>
               ~hflags.replied /\ ~file_sent /\ text_sent = <<>>
        /\ EmptyResult("transcribe_audio") =>
               hflags.replied /\ text_sent = TRANSCRIBE_FAILED /\ ~file_sent
        /\ EmptyResult("extract_document_text") =>
               hflags.replied /\ text_sent = PARSE_FAILED /\ ~file_sent
        /\ EmptyResult("generate_image") =>
               hflags.replied /\ text_sent = IMAGE_FAILED /\ ~file_sent
        /\ EmptyResult("generate_speech") =>
               hflags.replied /\ text_sent = AUDIO_FAILED /\ ~file_sent
        /\ hflags.raised => response.null /\ ~hflags.replied

C17_Witness ==
    /\ hpc = "done"
    /\ EmptyResult("generate_image")
    /\ text_sent = IMAGE_FAILED

\* the row shows media, none of its bytes could be decoded, and it has no text
DegradedRow(r) ==
    /\ HandlerRows[r].img.present \/ HandlerRows[r].audio.present
       \/ HandlerRows[r].audio_marker \/ HandlerRows[r].doc_marker
    /\ HandlerPayload[r].image_bytes = NoBytes
    /\ HandlerPayload[r].audio_bytes = NoBytes
    /\ HandlerPayload[r].doc_bytes = NoBytes
    /\ HandlerPayload[r].text = <<>>

\* the resend notice for the modality the row shows, voice note first
ResendNotice(r) ==
    IF HandlerRows[r].audio.present \/ HandlerRows[r].audio_marker THEN RESEND_AUDIO
    ELSE IF HandlerRows[r].img.present THEN RESEND_IMAGE
    ELSE RESEND_DOCUMENT

----------------------------------------------------------------------------
(* Claims about the per-user kernels, checked under SpecKernels *)

\* C19: every call returns the instance the first call with that id
\* returned, different ids have different instances, each instance carries
\* the id it was requested for, and user_kernels has one entry per distinct
\* id requested.
C19_PerUserKernelIdentity ==
    /\ last_call.user # NoUser => last_call.result = requested[last_call.user]
    /\ \A u \in DOMAIN requested :
          /\ u \in DOMAIN user_kernels
          /\ user_kernels[u].obj = requested[u]
          /\ user_kernels[u].user_id = u
    /\ \A u, v \in DOMAIN user_kernels :
          u # v => user_kernels[u].obj # user_kernels[v].obj
    /\ Cardinality(DOMAIN user_kernels) = Cardinality(DOMAIN requested)

C19_Witness ==
    /\ Cardinality(DOMAIN requested) = 3
    /\ last_call.user # NoUser
    /\ ~last_call.created

----------------------------------------------------------------------------
(* Claims about the token, checked under Spec *)

\* the first n characters of s
FirstChars(s, n) == [i \in 1..(IF Len(s) < n THEN Len(s) ELSE n) |-> s[i]]

\* the first non-empty of data-id, data-pre-plain-text, aria-label
FirstNonEmpty(r) ==
    CHOOSE x \in {r.data_id, r.pre_plain, r.aria_label} :
        /\ x # <<>> \/ (r.data_id = <<>> /\ r.pre_plain = <<>> /\ r.aria_label = <<>>)
        /\ x = r.data_id \/ r.data_id = <<>>
        /\ x \in {r.data_id, r.pre_plain} \/ r.pre_plain = <<>>

----------------------------------------------------------------------------
(* Claims about the token, checked under SpecExtract *)

\* the bytes of the modality that the media type names
BytesOfType(p) ==
    IF p.type = T_AUDIO THEN p.audio_bytes
    ELSE IF p.type = T_IMAGE THEN p.image_bytes
    ELSE p.doc_bytes

\* C29: for a row whose media type is not text, the fingerprint part of the
\* token is the hash of the decoded bytes of the modality the media type
\* names, or the fixed sentinel when those bytes are absent.
C29_TypeAndFingerprintAgree ==
    (xpc # "first" /\ payload1.type # T_TEXT) =>
        payload1.msg_id =
            TokenSeed(row) \o COLON \o payload1.type \o COLON \o
                (IF BytesOfType(payload1) # NoBytes
                 THEN Sha1Hex10(BytesOfType(payload1))
                 ELSE NOMEDIA)

----------------------------------------------------------------------------
(* Claims about the trim, checked under Spec *)

\* C26: after an observation that trimmed the store, the token whose
\* insertion triggered the trim is still in the store.
C26_TrimKeepsTrigger ==
    (last_obs.path # "none" /\ last_obs.trimmed) =>
        RowPayload[last_obs.row].msg_id \in processed_messages

----------------------------------------------------------------------------
(* Claims about the scripted client library, checked under SpecWpp *)

\* C25: over all the sends of a session the script is injected at most once
\* and the page is reloaded at most once.
C25_LibraryLoadsOnce == injections <= 1 /\ reloads <= 1

----------------------------------------------------------------------------
(* Claims about the polls over the chats, checked under SpecChat *)

\* the n-th inbound message of c is the trailing row of the open chat, its
\* row has no badge and its token is not in the store
WaitsInOpenChat(c, n) ==
    /\ chat_open = c
    /\ inbound[c] = n
    /\ ~own_last[c]
    /\ c \notin badges
    /\ ChatMsgId(c, n) \notin processed

\* C21: while connected, an inbound message that is the trailing message of
\* the open chat and has no unread badge is dispatched in a later poll,
\* unless a newer message of the same chat takes its place first
C21_OpenChatMessageDispatched ==
    \A c \in Chats : \A n \in 1..MaxArrivals :
        WaitsInOpenChat(c, n) ~> (ChatMsgId(c, n) \in processed \/ inbound[c] > n)

\* the next position of the for loop after candidate ci
AfterCandidate == IF ci + 1 < cn THEN "click" ELSE "sleep"

\* C23: safe_click makes at most two clicks on a candidate, a forced one only
\* after the normal attempt raised; when the forced click raises too the
\* candidate is passed over with no extraction, no insertion into the store,
\* no dispatch and no reply, and the loop goes on to the next candidate
C23_ClickRetryThenSkip ==
    /\ [](click_log \in {<<>>, <<"click">>, <<"force">>, <<"click", "force">>})
    /\ [][(cpc = "force" /\ cpc' \notin {"force", "read"}) =>
            /\ cpc' = AfterCandidate
            /\ ci' = IF ci + 1 < cn THEN ci + 1 ELSE ci
            /\ cur' = cur
            /\ processed' = processed
            /\ last_dispatch' = last_dispatch
            /\ last_delivery' = last_delivery]_vars

C23_Witness ==
    /\ skip = [why |-> "click", path |-> "unread"]
    /\ click_log = <<"click", "force">>
    /\ cpc = "click"
    /\ ci > 0

\* C24: on both paths, when the trailing row of the open chat was written
\* locally, the scanner's step extracts nothing, leaves the store unchanged,
\* calls no kernel and delivers no reply
C24_OwnMessagesSkipped ==
    [][(/\ cpc \in {"active", "read"}
        /\ cpc' # cpc
        /\ chat_open # 0
        /\ own_last[chat_open]) =>
            /\ cpc' \in {"count", "click", "sleep"}
            /\ cur' = cur
            /\ processed' = processed
            /\ last_dispatch' = last_dispatch
            /\ last_delivery' = last_delivery]_vars

C24_Witness ==
    /\ skip = [why |-> "own", path |-> "unread"]
    /\ own_last[chat_open]
    /\ last_dispatch = NoDispatch

\* C27: the token is in the store when the kernel is called; a kernel call
\* is made only for a token that was not in the store, so a message whose
\* dispatch raised or whose reply was not sent is not dispatched again while
\* its token is in the store; one delivery tries the scripted path at most
\* once and then the typing path at most once
C27_AtMostOnceNoRetry ==
    /\ [](cpc = "kernel" => CurToken \in processed)
    /\ [](send_log \in {<<>>, <<"wpp">>, <<"wpp", "dom">>})
    /\ [][(cpc # "kernel" /\ cpc' = "kernel") =>
            /\ ChatMsgId(cur'.chat, cur'.n) \notin processed
            /\ ChatMsgId(cur'.chat, cur'.n) \in processed']_vars
    /\ [][(last_delivery' # last_delivery /\ last_delivery' # NoDelivery) =>
            cpc \in {"send_wpp", "send_dom"} /\ Len(send_log') <= 2]_vars

C27_Witness ==
    /\ skip.why = "seen"
    /\ CurToken \in failed
    /\ CurToken \in processed

\* C28: a delivered reply lands in the chat its triggering message was
\* extracted from
C28_ReplyToOriginatingChat == last_delivery.to = last_delivery.from

\* C30: every dispatched inbound message is handled by the kernel of its
\* sender, the title of the chat it was read from
C30_SendersKernel ==
    last_dispatch.path # "none" => last_dispatch.kernel = Val(ChatTitle(last_dispatch.chat))

====
